---- MODULE Spec2Model ----
(***************************************************************************)
(* Transfer ledger of limosen-pylon: the "AllRequests" master sheet, the   *)
(* lifecycle operations of TransferService and the monthly statement       *)
(* sheets they maintain.  The spreadsheet is modelled by the cell values   *)
(* the service reads and writes; every handler is one action that performs *)
(* all of its remote calls in program order.                               *)
(***************************************************************************)
EXTENDS Naturals, Sequences, FiniteSets, TLC

VARIABLES
    now,           \* wall clock: index of the current second in Clock
    sheets,        \* titles of the tabs that exist in the spreadsheet
    masterHeader,  \* row 1 of AllRequests (trailing empty cells trimmed)
    master,        \* data rows of AllRequests: master[k] is sheet row k + 1
    monthly,       \* per statement title: header block and data rows (row 4..)
    ops,           \* number of requests that have written to the spreadsheet
    last,          \* the last request that wrote: handler, hook outcome, repair
    mirror,        \* relational mirror: the Transfer table, keyed by transferId
    race,          \* markCompleted calls in progress, step by step
    idp,           \* identity lookups of one request: cache, in-flight map, callers
    push,          \* one push request: VAPID configuration, subscriptions, result
    token,         \* spreadsheet access token: request-context cache, exchanges, last call
    meta,          \* sheet metadata: tabs of the spreadsheet, request-context cache
    lazy           \* one lazy user object: requested fields, memoised lookups

vars == <<now, sheets, masterHeader, master, monthly, ops, last, mirror, race, idp, push, token, meta, lazy>>

\* the services beside the transfer ledger and the identity lookups
services == <<push, token, meta, lazy>>

\* what the handlers of the transfer ledger never touch
others == <<mirror, race, idp, services>>

(***************************************************************************)
(* Bounds and input universe                                               *)
(***************************************************************************)
MaxOps == 4

\* seconds the clock can show (toISOString digits, second granular)
Clock == <<"20250301120000", "20250301120001">>

\* values randomHex(3) can return
RandomHex == {"a1b2c3", "d4e5f6"}

Undefined == "<undefined>"

\* the user id the handlers use instead of the authenticated subject
HardcodedUserId == "346402675442587254"

CustomerIds == {HardcodedUserId, "u1"}
Callers == CustomerIds
Months == {"2025-03", "2025-04"}
DriverInputs == {"d1", "ghost", ""}

\* createTransfer arguments <<customerId, rideDateISO, rideTime>>: two valid
\* bookings and one request for each validation failure
Bookings == {<<HardcodedUserId, "2025-03-10", "14:30">>, <<"u1", "2025-04-02", "14:30">>}
BadBookings == {<<"u1", "10.03.2025", "14:30">>, <<"u1", "2025-03-10", "2pm">>,
                <<"", "2025-03-10", "14:30">>}

\* identity provider: the users that exist, with their profile display name
ZitadelUsers == {HardcodedUserId, "d1"}
DisplayNameOf(u) == IF u = HardcodedUserId THEN "Hans Huber" ELSE ""

(***************************************************************************)
(* Configuration                                                           *)
(***************************************************************************)
MASTER_TITLE == "AllRequests"

MASTER_HEADERS ==
    <<"transferId", "customerId", "customerName", "rideDateISO", "rideTime",
      "pickup", "dropoff", "roomOrName", "vehicle", "amountEUR", "payment",
      "driverId", "driverName", "state", "requestedAtISO">>

ColTransferId == 1
ColCustomerId == 2
ColRideDateISO == 4
ColDriverId == 12
ColDriverName == 13
ColState == 14
ColRequestedAtISO == 15

MONTH_TOTAL_COLUMNS == 9
MONTH_HEADERS_VISIBLE == 9

(***************************************************************************)
(* Sequence helpers (what the Sheets value API does to a range)            *)
(***************************************************************************)
RECURSIVE TrimTrailing(_)
\* values.get drops the trailing empty cells of a row
TrimTrailing(cells) ==
    IF cells = <<>> THEN <<>>
    ELSE IF cells[Len(cells)] = "" THEN TrimTrailing(SubSeq(cells, 1, Len(cells) - 1))
    ELSE cells

\* values.update of one row range: cells from..from+Len(vals)-1 are overwritten
WriteCells(cells, from, vals) ==
    LET n == IF Len(cells) > from + Len(vals) - 1 THEN Len(cells) ELSE from + Len(vals) - 1
    IN [i \in 1..n |->
          IF i >= from /\ i < from + Len(vals) THEN vals[i - from + 1]
          ELSE IF i <= Len(cells) THEN cells[i] ELSE ""]

\* insertDimension COLUMNS startIndex..endIndex (0-based): a blank cell at col
InsertColumn(cells, col) ==
    IF Len(cells) < col THEN cells
    ELSE SubSeq(cells, 1, col - 1) \o <<"">> \o SubSeq(cells, col, Len(cells))

(***************************************************************************)
(* Master bootstrapping and migration                                      *)
(***************************************************************************)
EnsureSheet(S, title) == S \cup {title}

HeaderCell(header, idx0) == IF idx0 + 1 <= Len(header) THEN header[idx0 + 1] ELSE ""

\* mutant: the column is inserted whatever column M holds
MigrateMasterAlwaysInsert(header, rows) ==
    LET h3 == WriteCells(InsertColumn(header, 13), 13,
                         <<"driverName", "state", "requestedAtISO">>)
    IN [header |-> TrimTrailing(WriteCells(h3, 1, MASTER_HEADERS)),
        rows |-> [k \in 1..Len(rows) |-> InsertColumn(rows[k], 13)]]

\* migrateMasterIfNeeded on (header row, data rows): renames, column insert at
\* M when M holds "state" or is empty, then the canonical header is rewritten
MigrateMasterIfNeeded(header, rows) ==
    LET h1 == IF HeaderCell(header, 1) = "userId"
              THEN WriteCells(header, 2, <<"customerId">>) ELSE header
        h2 == IF HeaderCell(header, 11) = "driver"
              THEN WriteCells(h1, 12, <<"driverId">>) ELSE h1
        colM == HeaderCell(header, 12)
        ins == colM = "state" \/ colM = ""
        h3 == IF ins
              THEN WriteCells(InsertColumn(h2, 13), 13,
                              <<"driverName", "state", "requestedAtISO">>)
              ELSE h2
        r3 == IF ins THEN [k \in 1..Len(rows) |-> InsertColumn(rows[k], 13)] ELSE rows
    IN [header |-> TrimTrailing(WriteCells(h3, 1, MASTER_HEADERS)), rows |-> r3]

\* values.get of A1:O1: the first 15 cells of row 1, trailing empties dropped
HeaderRange(header) ==
    TrimTrailing(SubSeq(header, 1, IF Len(header) < Len(MASTER_HEADERS)
                                   THEN Len(header) ELSE Len(MASTER_HEADERS)))

\* ensureMaster: the tab exists afterwards; headers are written when row 1 has
\* fewer than 15 cells, otherwise the migration runs
EnsureMaster(header, rows) ==
    IF ~(Len(HeaderRange(header)) >= Len(MASTER_HEADERS))
    THEN [header |-> TrimTrailing(WriteCells(header, 1, MASTER_HEADERS)), rows |-> rows]
    ELSE MigrateMasterIfNeeded(header, rows)

(***************************************************************************)
(* Mapping                                                                 *)
(***************************************************************************)
Null == [null |-> TRUE]

\* a JavaScript number, as opposed to the text a sheet cell is read back as
Amounts == {"0", "48.5"}
JsNumber(text) == "number " \o text
IsJsNumber(v) == \E a \in Amounts : v = JsNumber(a)
\* truthiness of a cell value: the empty string and the number 0 are falsy
Truthy(v) == v # "" /\ v # JsNumber("0")
\* Number(v) of a number or of the text of one
NumberOf(v) ==
    IF IsJsNumber(v) THEN v ELSE IF v \in Amounts THEN JsNumber(v) ELSE "number NaN"
\* the text values.get returns for a cell a value was written to
FormattedValue(v) == IF IsJsNumber(v) THEN CHOOSE a \in Amounts : v = JsNumber(a) ELSE v

\* rowToTransfer: null below 15 cells; driverId / driverName / amountEUR map
\* the empty cell to undefined, the other cells pass through
RowToTransfer(row) ==
    IF Len(row) < Len(MASTER_HEADERS) THEN Null
    ELSE [transferId |-> row[1], customerId |-> row[2], customerName |-> row[3],
          rideDateISO |-> row[4], rideTime |-> row[5], pickup |-> row[6],
          dropoff |-> row[7], roomOrName |-> row[8], vehicle |-> row[9],
          amountEUR |-> IF Truthy(row[10]) THEN NumberOf(row[10]) ELSE Undefined,
          payment |-> row[11],
          driverId |-> IF row[12] = "" THEN Undefined ELSE row[12],
          driverName |-> IF row[13] = "" THEN Undefined ELSE row[13],
          state |-> row[14], requestedAtISO |-> row[15]]

OrEmpty(v) == IF v = Undefined THEN "" ELSE v

\* transferToMasterRow: optional fields serialise to the empty cell
TransferToMasterRow(t) ==
    <<t.transferId, t.customerId, OrEmpty(t.customerName), t.rideDateISO,
      t.rideTime, t.pickup, t.dropoff, OrEmpty(t.roomOrName), OrEmpty(t.vehicle),
      IF IsJsNumber(t.amountEUR) THEN t.amountEUR ELSE "", OrEmpty(t.payment),
      OrEmpty(t.driverId),
      OrEmpty(t.driverName), t.state, t.requestedAtISO>>

(***************************************************************************)
(* Utilities                                                               *)
(***************************************************************************)
\* newTransferId: "tr_" + 14 digits of the current second + "_" + randomHex(3)
NewTransferId(ts, rand) == "tr_" \o ts \o "_" \o rand

\* new Date().toISOString() of the creation instant
RequestedAtISO(ts) == ts \o ".000Z"

\* dateISO.slice(0, 7) on the ride dates of the input universe
MonthKeyFromISO(dateISO) ==
    CASE dateISO = "2025-03-10" -> "2025-03"
      [] dateISO = "2025-04-02" -> "2025-04"
      [] OTHER -> dateISO

GermanMonthLabel(yyyymm) ==
    CASE yyyymm = "2025-03" -> "MAERZ 2025"
      [] yyyymm = "2025-04" -> "APRIL 2025"
      [] OTHER -> "undefined NaN"

MonthSheetTitle(userId, yyyymm) == "USR_" \o userId \o "_" \o yyyymm

MonthlyTitles == {MonthSheetTitle(u, m) : u \in CustomerIds, m \in Months}

\* validator.isISO8601 / the HH:mm pattern, on the strings of the input universe
IsISO8601(s) == s \in {"2025-03-10", "2025-04-02"}
IsHHmm(s) == s \in {"14:30", "09:15"}

\* tryGetUserDisplayName: the profile display name, undefined when the lookup
\* fails or the name is empty
TryGetUserDisplayName(userId) ==
    IF userId \in ZitadelUsers /\ DisplayNameOf(userId) # ""
    THEN DisplayNameOf(userId) ELSE Undefined

(***************************************************************************)
(* Master lookups                                                          *)
(***************************************************************************)
RECURSIVE FirstIndex(_, _, _, _)
\* the loop of findMasterRowIndexByTransferId / findMonthlyRowIndexByTransferId:
\* first position i >= from whose value is v, 0 when there is none
FirstIndex(column, v, from, upto) ==
    IF from > upto THEN 0
    ELSE IF column[from] = v THEN from
    ELSE FirstIndex(column, v, from + 1, upto)

\* column A from row 2 down, as values.get returns it
MasterIdColumn(rows) ==
    [k \in 1..Len(rows) |-> IF Len(rows[k]) >= 1 THEN rows[k][ColTransferId] ELSE ""]

\* sheet row number (i + 2 for the 0-based i of the loop), 0 for null
FindMasterRowIndexByTransferId(rows, transferId) ==
    LET i == FirstIndex(MasterIdColumn(rows), transferId, 1, Len(rows))
    IN IF i = 0 THEN 0 ELSE i + 1

\* getMasterRowWithIndex: the row is decoded from the cells values.get returns
GetMasterRowWithIndex(rows, transferId) ==
    LET idx == FindMasterRowIndexByTransferId(rows, transferId)
    IN IF idx = 0 THEN [rowIdx |-> 0, row |-> Null]
       ELSE [rowIdx |-> idx, row |-> RowToTransfer(TrimTrailing(rows[idx - 1]))]

\* mutant: the sheet row number is used as the index of the data row
UpdateMasterRowSheetIndex(rows, rowIdx, col, vals) ==
    IF rowIdx \in 1..Len(rows) THEN [rows EXCEPT ![rowIdx] = WriteCells(@, col, vals)] ELSE rows

\* values.update of a cell range of one master row
UpdateMasterRow(rows, rowIdx, col, vals) ==
    [rows EXCEPT ![rowIdx - 1] = WriteCells(@, col, vals)]

(***************************************************************************)
(* Monthly statement sheets                                                *)
(***************************************************************************)
BlankRow == [nr |-> 0, key |-> ""]
EmptyHeader == [a1 |-> "", a2 |-> "", h2 |-> "", columns |-> 0]
EmptySheet == [hdr |-> EmptyHeader, rows |-> <<>>]

\* monthlyRowFormulas_SQL: a row of lookup formulas keyed by the hidden
\* transferId in column J; column A receives the running number
MonthlyRowFormulas(transferId, nr) == [nr |-> nr, key |-> transferId]

\* column J from row 4 down
MonthlyKeyColumn(rows) == [k \in 1..Len(rows) |-> rows[k].key]

\* sheet row number (4 + i), 0 for null
FindMonthlyRowIndexByTransferId(rows, transferId) ==
    LET i == FirstIndex(MonthlyKeyColumn(rows), transferId, 1, Len(rows))
    IN IF i = 0 THEN 0 ELSE 3 + i

\* number of populated cells of the hidden key column
CurrentCount(rows) == Cardinality({k \in 1..Len(rows) : rows[k].key # ""})

\* insertDimension ROWS at sheet row r (data position r - 3)
InsertRowAt(rows, r) ==
    LET p == r - 3
    IN IF p > Len(rows) THEN rows
       ELSE SubSeq(rows, 1, p - 1) \o <<BlankRow>> \o SubSeq(rows, p, Len(rows))

\* values.update of A..J of sheet row r
WriteMonthlyRow(rows, r, val) ==
    LET p == r - 3
        n == IF Len(rows) > p THEN Len(rows) ELSE p
    IN [k \in 1..n |-> IF k = p THEN val ELSE IF k <= Len(rows) THEN rows[k] ELSE BlankRow]

\* mutant: the row is inserted at the last populated row
InsertAtRowOnLast(rows) == 3 + (IF CurrentCount(rows) = 0 THEN 1 ELSE CurrentCount(rows))

\* row at which markCompleted inserts the new statement row
InsertAtRow(rows) == 3 + (CurrentCount(rows) + 1)

\* the incremental append of markCompleted on the statement's data rows
AppendMonthlyRow(rows, transferId) ==
    LET nextIdx == CurrentCount(rows) + 1
        r == InsertAtRow(rows)
    IN WriteMonthlyRow(InsertRowAt(rows, r), r, MonthlyRowFormulas(transferId, nextIdx))

\* ensureMonthlyForUser: tab, optional wipe of all values, header block
EnsureMonthlyForUser(sheet, userId, yyyymm, wipe) ==
    LET s0 == IF wipe THEN EmptySheet ELSE sheet
        displayName == TryGetUserDisplayName(userId)
        hasHeader3 == s0.hdr.columns >= MONTH_TOTAL_COLUMNS
    IN [s0 EXCEPT !.hdr = [a1 |-> "ABRECHNUNG: " \o GermanMonthLabel(yyyymm),
                           a2 |-> OrEmpty(displayName),
                           h2 |-> userId,
                           columns |-> IF hasHeader3 THEN s0.hdr.columns
                                       ELSE MONTH_HEADERS_VISIBLE]]

(***************************************************************************)
(* State guards of the lifecycle handlers                                  *)
(***************************************************************************)
\* mutants of the guards: a guard that forgets a state
CanConfirmNotComplete(state) == state # "complete"
CanTerminateAlways(state) == TRUE
CanCancelNotComplete(state) == state # "complete"

CanCompleteAlways(state) == TRUE

CanConfirm(state) == state = "pending"
CanCancel(state) == state = "pending"
CanTerminate(state) == state # "complete"
CanComplete(state) == state = "pending" \/ state = "confirmed"

\* the identity cancelTransfer compares with the row's customerId
CancelUserId(caller) == HardcodedUserId

(***************************************************************************)
(* Handlers as functions of the sheet contents.  Each returns the result   *)
(* ("ok" or the error message), the new data rows and the write calls in   *)
(* the order they are issued.                                              *)
(***************************************************************************)
Outcome(result, rows, calls) == [result |-> result, rows |-> rows, calls |-> calls]

EnsureMasterCalls(S) ==
    (IF MASTER_TITLE \in S THEN <<>> ELSE <<"addSheet">>) \o <<"master.header">>

\* the row createTransfer builds
NewTransferRow(ts, rand, customerId, rideDateISO, rideTime) ==
    [transferId |-> NewTransferId(ts, rand), customerId |-> customerId,
     customerName |-> TryGetUserDisplayName(customerId),
     rideDateISO |-> rideDateISO, rideTime |-> rideTime,
     pickup |-> "Hotel X", dropoff |-> "Airport", roomOrName |-> Undefined,
     vehicle |-> "Limousine", amountEUR |-> JsNumber("48.5"), payment |-> Undefined,
     driverId |-> "", driverName |-> "", state |-> "pending",
     requestedAtISO |-> RequestedAtISO(ts)]

\* mutant: the row is written over the last data row instead of below it
ValuesAppendOverLast(rows, row) ==
    LET stored == [i \in 1..Len(row) |-> FormattedValue(row[i])]
    IN IF rows = <<>> THEN <<stored>> ELSE [rows EXCEPT ![Len(rows)] = stored]

\* values.append with INSERT_ROWS: the row is added below the last data row
ValuesAppend(rows, row) == Append(rows, [i \in 1..Len(row) |-> FormattedValue(row[i])])

CreateTransferOp(S, rows, ts, rand, customerId, rideDateISO, rideTime) ==
    IF ~IsISO8601(rideDateISO)
    THEN [result |-> "Invalid rideDateISO", rows |-> rows, calls |-> <<>>, transferId |-> ""]
    ELSE IF ~IsHHmm(rideTime)
    THEN [result |-> "Invalid rideTime", rows |-> rows, calls |-> <<>>, transferId |-> ""]
    ELSE IF customerId = ""
    THEN [result |-> "customerId required", rows |-> rows, calls |-> <<>>, transferId |-> ""]
    ELSE LET row == NewTransferRow(ts, rand, customerId, rideDateISO, rideTime)
         IN [result |-> "ok", rows |-> ValuesAppend(rows, TransferToMasterRow(row)),
             calls |-> EnsureMasterCalls(S) \o <<"master.append">>,
             transferId |-> row.transferId]

AssignDriverOp(S, rows, transferId, driverUserId) ==
    IF driverUserId = "" THEN Outcome("driverUserId required", rows, <<>>)
    ELSE IF driverUserId \notin ZitadelUsers THEN Outcome("Driver user not found", rows, <<>>)
    ELSE LET driverName == OrEmpty(TryGetUserDisplayName(driverUserId))
             rowIdx == FindMasterRowIndexByTransferId(rows, transferId)
         IN IF rowIdx = 0
            THEN Outcome("transferId not found", rows, EnsureMasterCalls(S))
            ELSE Outcome("ok",
                         UpdateMasterRow(rows, rowIdx, ColDriverId, <<driverUserId, driverName>>),
                         EnsureMasterCalls(S) \o <<"master.driver">>)

\* mutant: the state cell is written before the guard is checked
MarkConfirmedOpWriteFirst(S, rows, transferId) ==
    LET g == GetMasterRowWithIndex(rows, transferId)
    IN IF g.rowIdx = 0 \/ g.row = Null
       THEN Outcome("transferId not found", rows, EnsureMasterCalls(S))
       ELSE IF ~CanConfirm(g.row.state)
       THEN Outcome("Only pending transfers can be confirmed",
                    UpdateMasterRow(rows, g.rowIdx, ColState, <<"confirmed">>),
                    EnsureMasterCalls(S) \o <<"master.state">>)
       ELSE Outcome("ok", UpdateMasterRow(rows, g.rowIdx, ColState, <<"confirmed">>),
                    EnsureMasterCalls(S) \o <<"master.state">>)

MarkConfirmedOp(S, rows, transferId) ==
    LET g == GetMasterRowWithIndex(rows, transferId)
    IN IF g.rowIdx = 0 \/ g.row = Null
       THEN Outcome("transferId not found", rows, EnsureMasterCalls(S))
       ELSE IF ~CanConfirm(g.row.state)
       THEN Outcome("Only pending transfers can be confirmed", rows, EnsureMasterCalls(S))
       ELSE Outcome("ok", UpdateMasterRow(rows, g.rowIdx, ColState, <<"confirmed">>),
                    EnsureMasterCalls(S) \o <<"master.state">>)

CancelTransferOp(S, rows, transferId, caller) ==
    LET userId == CancelUserId(caller)
        g == GetMasterRowWithIndex(rows, transferId)
    IN IF userId = "" THEN Outcome("Anonymous", rows, EnsureMasterCalls(S))
       ELSE IF g.rowIdx = 0 \/ g.row = Null
       THEN Outcome("transferId not found", rows, EnsureMasterCalls(S))
       ELSE IF g.row.customerId # userId
       THEN Outcome("Forbidden", rows, EnsureMasterCalls(S))
       ELSE IF ~CanCancel(g.row.state)
       THEN Outcome("Only pending transfers can be canceled", rows, EnsureMasterCalls(S))
       ELSE Outcome("ok", UpdateMasterRow(rows, g.rowIdx, ColState, <<"canceled">>),
                    EnsureMasterCalls(S) \o <<"master.state">>)

\* mutant: terminateTransfer also clears the driver cells of the row
TerminateTransferOpClearDriver(S, rows, transferId) ==
    LET g == GetMasterRowWithIndex(rows, transferId)
    IN IF g.rowIdx = 0 \/ g.row = Null
       THEN Outcome("transferId not found", rows, EnsureMasterCalls(S))
       ELSE IF ~CanTerminate(g.row.state)
       THEN Outcome("Cannot terminate a completed transfer", rows, EnsureMasterCalls(S))
       ELSE Outcome("ok", UpdateMasterRow(rows, g.rowIdx, ColDriverId, <<"", "", "terminated">>),
                    EnsureMasterCalls(S) \o <<"master.state">>)

TerminateTransferOp(S, rows, transferId) ==
    LET g == GetMasterRowWithIndex(rows, transferId)
    IN IF g.rowIdx = 0 \/ g.row = Null
       THEN Outcome("transferId not found", rows, EnsureMasterCalls(S))
       ELSE IF ~CanTerminate(g.row.state)
       THEN Outcome("Cannot terminate a completed transfer", rows, EnsureMasterCalls(S))
       ELSE Outcome("ok", UpdateMasterRow(rows, g.rowIdx, ColState, <<"terminated">>),
                    EnsureMasterCalls(S) \o <<"master.state">>)

\* the ledger part of markCompleted (read, guard, state write)
MarkCompletedLedgerOp(S, rows, transferId) ==
    LET g == GetMasterRowWithIndex(rows, transferId)
    IN IF g.rowIdx = 0 \/ g.row = Null
       THEN Outcome("transferId not found", rows, EnsureMasterCalls(S))
       ELSE IF ~CanComplete(g.row.state)
       THEN Outcome("Only pending or confirmed transfers can be completed", rows,
                    EnsureMasterCalls(S))
       ELSE Outcome("ok", UpdateMasterRow(rows, g.rowIdx, ColState, <<"complete">>),
                    EnsureMasterCalls(S) \o <<"master.state">>)

\* the statement part of markCompleted for the row read before the state
\* write: title of the statement, its new content and the calls issued
MarkCompletedStatementOp(S, M, row, transferId) ==
    LET title == MonthSheetTitle(row.customerId, MonthKeyFromISO(row.rideDateISO))
        sheet == EnsureMonthlyForUser(IF title \in DOMAIN M THEN M[title] ELSE EmptySheet,
                                      row.customerId, MonthKeyFromISO(row.rideDateISO), FALSE)
        ensureCalls == (IF title \in S THEN <<>> ELSE <<"addSheet">>) \o <<"monthly.header">>
        existing == FindMonthlyRowIndexByTransferId(sheet.rows, transferId)
    IN IF existing # 0
       THEN [title |-> title, sheet |-> sheet,
             calls |-> ensureCalls \o <<"callAppsScriptForSheet">>]
       ELSE [title |-> title,
             sheet |-> [sheet EXCEPT !.rows = AppendMonthlyRow(@, transferId)],
             calls |-> ensureCalls \o <<"monthly.insertRow", "monthly.row",
                                       "callAppsScriptForSheet">>]

\* mutant: the state filter of listTransfers is dropped
RECURSIVE MonthRowsAnyState(_, _, _)
MonthRowsAnyState(rows, userId, yyyymm) ==
    IF rows = <<>> THEN <<>>
    ELSE LET t == RowToTransfer(TrimTrailing(Head(rows)))
             rest == MonthRowsAnyState(Tail(rows), userId, yyyymm)
         IN IF t # Null /\ t.customerId = userId /\ MonthKeyFromISO(t.rideDateISO) = yyyymm
            THEN <<t>> \o rest ELSE rest

\* listTransfers({customerId, state}) followed by the month filter of
\* syncMonthlySheet: the decodable rows, in ledger order
RECURSIVE MonthRows(_, _, _)
MonthRows(rows, userId, yyyymm) ==
    IF rows = <<>> THEN <<>>
    ELSE LET t == RowToTransfer(TrimTrailing(Head(rows)))
             rest == MonthRows(Tail(rows), userId, yyyymm)
         IN IF t # Null /\ t.customerId = userId /\ t.state = "complete"
               /\ MonthKeyFromISO(t.rideDateISO) = yyyymm
            THEN <<t>> \o rest ELSE rest

\* values.update of A4:J(3 + n): the payload rows replace the rows they cover
WriteMonthlyRange(rows, payload) ==
    [k \in 1..(IF Len(rows) > Len(payload) THEN Len(rows) ELSE Len(payload)) |->
        IF k <= Len(payload) THEN payload[k] ELSE rows[k]]

\* mutant: no wipe, the payload is written below the rows already there
SyncMonthlySheetAppend(rows, sheet, userId, yyyymm) ==
    LET kept == EnsureMonthlyForUser(sheet, userId, yyyymm, FALSE)
        monthRows == MonthRows(rows, userId, yyyymm)
        payload == [i \in 1..Len(monthRows) |->
                       MonthlyRowFormulas(monthRows[i].transferId, i)]
    IN [kept EXCEPT !.rows = @ \o payload]

\* syncMonthlySheet on one statement: wipe, header block, numbered payload
SyncMonthlySheetOp(rows, sheet, userId, yyyymm) ==
    LET wiped == EnsureMonthlyForUser(sheet, userId, yyyymm, TRUE)
        monthRows == MonthRows(rows, userId, yyyymm)
        payload == [i \in 1..Len(monthRows) |->
                       MonthlyRowFormulas(monthRows[i].transferId, i)]
    IN [wiped EXCEPT !.rows = WriteMonthlyRange(@, payload)]

\* outcomes of the GET to the post-processing web app: answered with 2xx,
\* answered with an error status, fetch rejected, or no URL configured
HookOutcomes == {"ok", "http 500", "network error", "unset"}

\* mutant: an error of the web app is passed on to the caller
CallAppsScriptForSheetRethrow(hook) ==
    IF hook = "network error" \/ hook = "http 500" THEN "threw" ELSE "returned"

\* callAppsScriptForSheet: skipped without URL; the body is drained whatever
\* the status; a rejected fetch is caught and logged
CallAppsScriptForSheet(hook) ==
    IF hook = "unset" THEN "returned"
    ELSE IF hook = "network error" THEN "returned"
    ELSE "returned"

(***************************************************************************)
(* State machine                                                           *)
(***************************************************************************)
NoRequest == [op |-> "none", hook |-> "", repaired |-> FALSE]
Wrote(op, hook, repaired) == [op |-> op, hook |-> hook, repaired |-> repaired]

\* the parts of the state outside the transfer ledger, at rest
ServicesIdle ==
    /\ push = <<>>
    /\ token = <<>>
    /\ meta = <<>>
    /\ lazy = <<>>

OthersIdle ==
    /\ mirror = {}
    /\ race = <<>>
    /\ idp = <<>>
    /\ ServicesIdle

Init ==
    /\ now = 1
    /\ sheets = {}
    /\ masterHeader = <<>>
    /\ master = <<>>
    /\ monthly = [t \in MonthlyTitles |-> EmptySheet]
    /\ ops = 0
    /\ last = NoRequest
    /\ OthersIdle

\* transferId arguments: the ids in the ledger and one that is not
AbsentId == "tr_absent"
TransferIdInputs == {master[k][ColTransferId] : k \in 1..Len(master)} \cup {AbsentId}

\* the data rows every handler works on: ensureMaster has run
Ensured == EnsureMaster(masterHeader, master)

\* effect of a handler that got as far as ensureMaster: the master tab and its
\* header exist; a handler that threw earlier issued no call
LedgerStep(out) ==
    /\ sheets' = (IF out.calls = <<>> THEN sheets ELSE EnsureSheet(sheets, MASTER_TITLE))
    /\ masterHeader' = (IF out.calls = <<>> THEN masterHeader ELSE Ensured.header)
    /\ master' = (IF out.calls = <<>> THEN master ELSE out.rows)
    /\ ops' = (IF out.result = "ok" THEN ops + 1 ELSE ops)
    /\ last' = (IF out.result = "ok" THEN Wrote("ledger", "", FALSE) ELSE last)

Tick ==
    /\ now < Len(Clock)
    /\ now' = now + 1
    /\ UNCHANGED <<sheets, masterHeader, master, monthly, ops, last, others>>

CreateTransfer ==
    \E b \in Bookings \cup BadBookings, rand \in RandomHex :
        /\ ops < MaxOps
        /\ LedgerStep(CreateTransferOp(sheets, Ensured.rows, Clock[now], rand, b[1], b[2], b[3]))
        /\ UNCHANGED <<now, monthly, others>>

AssignDriver ==
    \E transferId \in TransferIdInputs, driverUserId \in DriverInputs :
        /\ ops < MaxOps
        /\ LedgerStep(AssignDriverOp(sheets, Ensured.rows, transferId, driverUserId))
        /\ UNCHANGED <<now, monthly, others>>

MarkConfirmed ==
    \E transferId \in TransferIdInputs :
        /\ ops < MaxOps
        /\ LedgerStep(MarkConfirmedOp(sheets, Ensured.rows, transferId))
        /\ UNCHANGED <<now, monthly, others>>

CancelTransfer ==
    \E transferId \in TransferIdInputs, caller \in Callers :
        /\ ops < MaxOps
        /\ LedgerStep(CancelTransferOp(sheets, Ensured.rows, transferId, caller))
        /\ UNCHANGED <<now, monthly, others>>

TerminateTransfer ==
    \E transferId \in TransferIdInputs :
        /\ ops < MaxOps
        /\ LedgerStep(TerminateTransferOp(sheets, Ensured.rows, transferId))
        /\ UNCHANGED <<now, monthly, others>>

\* markCompleted as a function of the spreadsheet: result, data rows, the
\* statements and the calls, the statement part running after the state write
MarkCompletedOp(S, rows, M, transferId) ==
    LET out == MarkCompletedLedgerOp(S, rows, transferId)
        row == GetMasterRowWithIndex(rows, transferId).row
        st == MarkCompletedStatementOp(EnsureSheet(S, MASTER_TITLE), M, row, transferId)
    IN IF out.result # "ok"
       THEN [result |-> out.result, rows |-> out.rows, monthly |-> M,
             title |-> "", calls |-> out.calls]
       ELSE [result |-> "ok", rows |-> out.rows,
             monthly |-> [M EXCEPT ![st.title] = st.sheet],
             title |-> st.title, calls |-> out.calls \o st.calls]

\* markCompleted with the web app call that ends both of its success paths
MarkCompletedRequest(S, rows, M, transferId, hook) ==
    LET out == MarkCompletedOp(S, rows, M, transferId)
    IN IF out.result = "ok" /\ CallAppsScriptForSheet(hook) = "threw"
       THEN [out EXCEPT !.result = "Apps Script refresh failed"]
       ELSE out

\* syncMonthlySheet with the web app call it ends with
SyncMonthlySheetRequest(rows, sheet, userId, yyyymm, hook) ==
    [result |-> IF CallAppsScriptForSheet(hook) = "threw"
                THEN "Apps Script refresh failed" ELSE "ok",
     sheet |-> SyncMonthlySheetOp(rows, sheet, userId, yyyymm)]

MarkCompleted ==
    \E transferId \in TransferIdInputs, hook \in HookOutcomes :
        LET out == MarkCompletedRequest(sheets, Ensured.rows, monthly, transferId, hook)
        IN /\ ops < MaxOps
           /\ sheets' = (IF out.title # ""
                         THEN EnsureSheet(EnsureSheet(sheets, MASTER_TITLE), out.title)
                         ELSE EnsureSheet(sheets, MASTER_TITLE))
           /\ masterHeader' = Ensured.header
           /\ master' = out.rows
           /\ monthly' = out.monthly
           /\ ops' = (IF out.result = "ok" THEN ops + 1 ELSE ops)
           /\ last' = (IF out.result = "ok" THEN Wrote("markCompleted", hook, FALSE) ELSE last)
           /\ UNCHANGED <<now, others>>

\* markCompleted whose first Sheets call after the state write is answered
\* with an error: the handler throws, the state cell stays written
MarkCompletedSheetsError ==
    \E transferId \in TransferIdInputs :
        LET out == MarkCompletedLedgerOp(sheets, Ensured.rows, transferId)
        IN /\ ops < MaxOps
           /\ out.result = "ok"
           /\ sheets' = EnsureSheet(sheets, MASTER_TITLE)
           /\ masterHeader' = Ensured.header
           /\ master' = out.rows
           /\ ops' = ops + 1
           /\ last' = Wrote("markCompleted: Sheets error", "", FALSE)
           /\ UNCHANGED <<now, monthly, others>>

\* complete ledger rows of the statement that its key column does not list
Unlisted(rows, sheet, userId, yyyymm) ==
    LET monthRows == MonthRows(rows, userId, yyyymm)
    IN {i \in 1..Len(monthRows) :
           \A k \in 1..Len(sheet.rows) : sheet.rows[k].key # monthRows[i].transferId}

SyncMonthlySheetFor(userId, yyyymm, hook) ==
    LET title == MonthSheetTitle(userId, yyyymm)
        out == SyncMonthlySheetRequest(Ensured.rows, monthly[title], userId, yyyymm, hook)
    IN /\ ops < MaxOps
       /\ sheets' = EnsureSheet(EnsureSheet(sheets, MASTER_TITLE), title)
       /\ masterHeader' = Ensured.header
       /\ master' = Ensured.rows
       /\ monthly' = [monthly EXCEPT ![title] = out.sheet]
       /\ ops' = (IF out.result = "ok" THEN ops + 1 ELSE ops)
       /\ last' = (IF out.result = "ok"
                   THEN Wrote("syncMonthlySheet", hook,
                              Unlisted(Ensured.rows, monthly[title], userId, yyyymm) # {})
                   ELSE last)
       /\ UNCHANGED <<now, others>>

SyncMonthlySheet ==
    \E userId \in CustomerIds, yyyymm \in Months, hook \in HookOutcomes :
        SyncMonthlySheetFor(userId, yyyymm, hook)

Next ==
    \/ Tick
    \/ CreateTransfer
    \/ AssignDriver
    \/ MarkConfirmed
    \/ CancelTransfer
    \/ TerminateTransfer
    \/ MarkCompleted
    \/ MarkCompletedSheetsError
    \/ SyncMonthlySheet

Spec == Init /\ [][Next]_vars

(***************************************************************************)
(* The service started on a spreadsheet that already holds a master sheet: *)
(* in the legacy layout (B userId, L driver, M state, N requestedAtISO),   *)
(* in the legacy layout with one more column to the right, or canonical.   *)
(***************************************************************************)
LegacyHeader ==
    <<"transferId", "userId", "customerName", "rideDateISO", "rideTime",
      "pickup", "dropoff", "roomOrName", "vehicle", "amountEUR", "payment",
      "driver", "state", "requestedAtISO">>

LegacyRow ==
    <<"tr_legacy", HardcodedUserId, "Hans Huber", "2025-03-10", "07:30",
      "Hotel Hein", "VIE", "Zimmer 108", "Limousine", "48.5", "Lieferschein",
      "", "pending", "20250101073000.000Z">>

CanonicalRow ==
    <<"tr_old", HardcodedUserId, "Hans Huber", "2025-03-10", "07:30",
      "Hotel Hein", "VIE", "Zimmer 108", "Limousine", "48.5", "Lieferschein",
      "", "", "pending", "20250101073000.000Z">>

ExistingMasters ==
    {[header |-> LegacyHeader, rows |-> <<LegacyRow>>],
     [header |-> LegacyHeader \o <<"notes">>, rows |-> <<LegacyRow \o <<"vip">> >>],
     [header |-> MASTER_HEADERS, rows |-> <<CanonicalRow>>]}

InitLegacy ==
    /\ now = 1
    /\ sheets = {MASTER_TITLE}
    /\ \E m \in ExistingMasters : masterHeader = m.header /\ master = m.rows
    /\ monthly = [t \in MonthlyTitles |-> EmptySheet]
    /\ ops = 0
    /\ last = NoRequest
    /\ OthersIdle

SpecLegacy == InitLegacy /\ [][Next]_vars

(***************************************************************************)
(* Statements of rides that were booked out of chronological order: the    *)
(* ledger holds two transfers created by createTransfer, and the requests  *)
(* are the ones that write statement rows.                                 *)
(***************************************************************************)
Rides == {<<HardcodedUserId, "2025-03-10", "14:30">>,
          <<HardcodedUserId, "2025-03-10", "09:15">>,
          <<"u1", "2025-03-10", "14:30">>}

\* the data rows after createTransfer(a) in one second and createTransfer(b)
\* in the next
Booked(a, b) ==
    CreateTransferOp({MASTER_TITLE},
        CreateTransferOp({MASTER_TITLE}, <<>>, Clock[1], "a1b2c3", a[1], a[2], a[3]).rows,
        Clock[2], "d4e5f6", b[1], b[2], b[3]).rows

InitStatement ==
    /\ now = 2
    /\ sheets = {MASTER_TITLE}
    /\ masterHeader = MASTER_HEADERS
    /\ \E a \in Rides, b \in Rides : a # b /\ master = Booked(a, b)
    /\ monthly = [t \in MonthlyTitles |-> EmptySheet]
    /\ ops = 0
    /\ last = NoRequest
    /\ OthersIdle

NextStatement ==
    \/ MarkCompleted
    \/ MarkCompletedSheetsError
    \/ SyncMonthlySheet

SpecStatement == InitStatement /\ [][NextStatement]_vars

(***************************************************************************)
(* Two markCompleted calls on the same transferId, running concurrently:   *)
(* each call is a sequence of awaited Sheets requests, and the other call  *)
(* can run between any two of them.                                        *)
(***************************************************************************)
Calls == {1, 2}

NotStarted(transferId) ==
    [pc |-> "start", transferId |-> transferId, rowIdx |-> 0, customerId |-> "",
     yyyymm |-> "", insertAtRow |-> 0, result |-> ""]

\* ledgers with one transfer, pending or confirmed, that both calls name
RaceLedgers ==
    {UpdateMasterRow(
        ValuesAppend(<<>>, TransferToMasterRow(NewTransferRow(Clock[1], r, b[1], b[2], b[3]))),
        2, ColState, <<st>>) : r \in RandomHex, b \in Bookings, st \in {"pending", "confirmed"}}

InitRace ==
    /\ now = 1
    /\ sheets = {MASTER_TITLE}
    /\ masterHeader = MASTER_HEADERS
    /\ master \in RaceLedgers
    /\ monthly = [t \in MonthlyTitles |-> EmptySheet]
    /\ ops = 0
    /\ last = NoRequest
    /\ mirror = {}
    /\ idp = <<>>
    /\ ServicesIdle
    /\ race = [c \in Calls |-> NotStarted(master[1][ColTransferId])]

RaceTitle(c) == MonthSheetTitle(race[c].customerId, race[c].yyyymm)
RaceFrame == UNCHANGED <<now, masterHeader, ops, last, mirror, idp, services>>

\* getMasterRowWithIndex and the state guard
RaceReadRow(c) ==
    LET g == GetMasterRowWithIndex(master, race[c].transferId)
    IN /\ race[c].pc = "start"
       /\ race' = [race EXCEPT ![c] =
              IF g.rowIdx = 0 \/ g.row = Null
              THEN [@ EXCEPT !.pc = "done", !.result = "transferId not found"]
              ELSE IF ~CanComplete(g.row.state)
              THEN [@ EXCEPT !.pc = "done",
                             !.result = "Only pending or confirmed transfers can be completed"]
              ELSE [@ EXCEPT !.pc = "writeState", !.rowIdx = g.rowIdx,
                             !.customerId = g.row.customerId,
                             !.yyyymm = MonthKeyFromISO(g.row.rideDateISO)]]
       /\ UNCHANGED <<sheets, master, monthly>>
       /\ RaceFrame

\* valuesUpdate of the state cell
RaceWriteState(c) ==
    /\ race[c].pc = "writeState"
    /\ master' = UpdateMasterRow(master, race[c].rowIdx, ColState, <<"complete">>)
    /\ race' = [race EXCEPT ![c].pc = "ensureMonthly"]
    /\ UNCHANGED <<sheets, monthly>>
    /\ RaceFrame

RaceEnsureMonthly(c) ==
    /\ race[c].pc = "ensureMonthly"
    /\ sheets' = EnsureSheet(sheets, RaceTitle(c))
    /\ monthly' = [monthly EXCEPT ![RaceTitle(c)] =
                      EnsureMonthlyForUser(@, race[c].customerId, race[c].yyyymm, FALSE)]
    /\ race' = [race EXCEPT ![c].pc = "findMonthlyRow"]
    /\ UNCHANGED master
    /\ RaceFrame

\* findMonthlyRowIndexByTransferId: an existing row ends the call at the hook
RaceFindMonthlyRow(c) ==
    /\ race[c].pc = "findMonthlyRow"
    /\ race' = [race EXCEPT ![c].pc =
           IF FindMonthlyRowIndexByTransferId(monthly[RaceTitle(c)].rows, race[c].transferId) # 0
           THEN "hook" ELSE "count"]
    /\ UNCHANGED <<sheets, master, monthly>>
    /\ RaceFrame

\* read of J4:J, from which nextIdx and insertAtRow are computed
RaceCount(c) ==
    /\ race[c].pc = "count"
    /\ race' = [race EXCEPT ![c].pc = "insertRow",
                            ![c].insertAtRow = InsertAtRow(monthly[RaceTitle(c)].rows)]
    /\ UNCHANGED <<sheets, master, monthly>>
    /\ RaceFrame

RaceInsertRow(c) ==
    /\ race[c].pc = "insertRow"
    /\ monthly' = [monthly EXCEPT ![RaceTitle(c)].rows = InsertRowAt(@, race[c].insertAtRow)]
    /\ race' = [race EXCEPT ![c].pc = "writeRow"]
    /\ UNCHANGED <<sheets, master>>
    /\ RaceFrame

RaceWriteRow(c) ==
    /\ race[c].pc = "writeRow"
    /\ monthly' = [monthly EXCEPT ![RaceTitle(c)].rows =
                      WriteMonthlyRow(@, race[c].insertAtRow,
                                      MonthlyRowFormulas(race[c].transferId,
                                                         race[c].insertAtRow - 3))]
    /\ race' = [race EXCEPT ![c].pc = "hook"]
    /\ UNCHANGED <<sheets, master>>
    /\ RaceFrame

RaceHook(c) ==
    /\ race[c].pc = "hook"
    /\ race' = [race EXCEPT ![c].pc = "done", ![c].result = "ok"]
    /\ UNCHANGED <<sheets, master, monthly>>
    /\ RaceFrame

NextRace ==
    \E c \in Calls :
        \/ RaceReadRow(c)
        \/ RaceWriteState(c)
        \/ RaceEnsureMonthly(c)
        \/ RaceFindMonthlyRow(c)
        \/ RaceCount(c)
        \/ RaceInsertRow(c)
        \/ RaceWriteRow(c)
        \/ RaceHook(c)

SpecRace == InitRace /\ [][NextRace]_vars

(***************************************************************************)
(* Two lifecycle calls on the same transferId, running concurrently: each  *)
(* reads the row and checks its guard, and writes the state cell in a      *)
(* later step.                                                             *)
(***************************************************************************)
LifecycleOps == {"markConfirmed", "cancelTransfer", "terminateTransfer", "markCompleted"}

\* the value each handler writes into the state cell
WrittenState(op) ==
    CASE op = "markConfirmed" -> "confirmed"
      [] op = "cancelTransfer" -> "canceled"
      [] op = "terminateTransfer" -> "terminated"
      [] op = "markCompleted" -> "complete"

\* the handler's lookup and guard on the rows it reads: "ok" or its error
GuardResult(op, rows, transferId) ==
    CASE op = "markConfirmed" -> MarkConfirmedOp(sheets, rows, transferId).result
      [] op = "cancelTransfer" ->
             CancelTransferOp(sheets, rows, transferId, HardcodedUserId).result
      [] op = "terminateTransfer" -> TerminateTransferOp(sheets, rows, transferId).result
      [] op = "markCompleted" -> MarkCompletedLedgerOp(sheets, rows, transferId).result

InitInterleave ==
    /\ now = 1
    /\ sheets = {MASTER_TITLE}
    /\ masterHeader = MASTER_HEADERS
    /\ master \in RaceLedgers
    /\ monthly = [t \in MonthlyTitles |-> EmptySheet]
    /\ ops = 0
    /\ last = NoRequest
    /\ mirror = {}
    /\ idp = <<>>
    /\ ServicesIdle
    /\ race \in [Calls -> [pc : {"start"}, op : LifecycleOps,
                           transferId : {master[1][ColTransferId]}, rowIdx : {0},
                           result : {""}]]

\* getMasterRowWithIndex and the guard of the handler
LifecycleReadRow(c) ==
    LET result == GuardResult(race[c].op, master, race[c].transferId)
    IN /\ race[c].pc = "start"
       /\ race' = [race EXCEPT ![c] =
              IF result # "ok"
              THEN [@ EXCEPT !.pc = "done", !.result = result]
              ELSE [@ EXCEPT !.pc = "writeState",
                             !.rowIdx = GetMasterRowWithIndex(master, race[c].transferId).rowIdx]]
       /\ UNCHANGED <<sheets, master, monthly>>
       /\ RaceFrame

\* valuesUpdate of the state cell N<rowIdx>
LifecycleWriteState(c) ==
    /\ race[c].pc = "writeState"
    /\ master' = UpdateMasterRow(master, race[c].rowIdx, ColState,
                                 <<WrittenState(race[c].op)>>)
    /\ race' = [race EXCEPT ![c].pc = "done", ![c].result = "ok"]
    /\ UNCHANGED <<sheets, monthly>>
    /\ RaceFrame

NextInterleave ==
    \E c \in Calls :
        \/ LifecycleReadRow(c)
        \/ LifecycleWriteState(c)

SpecInterleave == InitInterleave /\ [][NextInterleave]_vars

(***************************************************************************)
(* Two markCompleted calls on two different transfers of one customer and  *)
(* month, running concurrently                                             *)
(***************************************************************************)
\* ledgers with two transfers of the same customer, both rides in March
TwoTransferLedgers ==
    {Booked(p[1], p[2]) : p \in {q \in Rides \X Rides : q[1][1] = q[2][1]}}

InitRaceTwo ==
    /\ now = 2
    /\ sheets = {MASTER_TITLE}
    /\ masterHeader = MASTER_HEADERS
    /\ master \in TwoTransferLedgers
    /\ monthly = [t \in MonthlyTitles |-> EmptySheet]
    /\ ops = 0
    /\ last = NoRequest
    /\ mirror = {}
    /\ idp = <<>>
    /\ ServicesIdle
    /\ race = [c \in Calls |-> NotStarted(master[c][ColTransferId])]

SpecRaceTwo == InitRaceTwo /\ [][NextRace]_vars

(***************************************************************************)
(* Identity lookups of one request: getZitadelUserById and                 *)
(* listProjectRoles with their request-scoped value cache and in-flight    *)
(* map.  Callers are the resolvers of the request; a lookup runs up to its *)
(* fetch without interruption, the answer arrives in a later step.         *)
(***************************************************************************)
MaxFetches == 2

IdpCallers == {"resolverA", "resolverB", "resolverC"}

\* cache keys per function: "<userId>", "<orgId>:<userId>", "<projectId>";
\* the last user id is a string with a lone surrogate (U+D800)
UserKeys == {"u1", "org1:u1", "org1:<U+D800>"}
RoleKeys == {"p1"}
CacheKeys == UserKeys \cup RoleKeys

\* encodeURIComponent(userId) throws URIError on a lone surrogate: the url of
\* getZitadelUserById is built before its try block and before any await
ThrowsBeforeFetch(k) == k = "org1:<U+D800>"

\* pagination.limit of listProjectRoles (default 100); 0 where there is none
LimitsOf(k) == IF k \in RoleKeys THEN {5, 100} ELSE {0}

None == "<none>"
FetchOutcomes == {"ok", "http error", "network error"}

IdleCaller == [pc |-> "idle", key |-> "", promise |-> 0, via |-> "", got |-> ""]

InitIdp ==
    /\ now = 1
    /\ sheets = {}
    /\ masterHeader = <<>>
    /\ master = <<>>
    /\ monthly = [t \in MonthlyTitles |-> EmptySheet]
    /\ ops = 0
    /\ last = NoRequest
    /\ mirror = {}
    /\ race = <<>>
    /\ ServicesIdle
    /\ idp = [cache |-> [k \in CacheKeys |-> None],
              inflight |-> [k \in CacheKeys |-> 0],
              outstanding |-> [k \in CacheKeys |-> {}],
              issued |-> [k \in CacheKeys |-> 0],
              sent |-> [k \in CacheKeys |-> 0],
              callers |-> [c \in IdpCallers |-> IdleCaller]]

\* mutant: the in-flight map is not consulted
ServedFromCacheOnly(cached, existingPromise) ==
    IF cached # None THEN "cache" ELSE "new"

\* the two lookups at the head of both functions
ServedFrom(cached, existingPromise) ==
    IF cached # None THEN "cache"
    ELSE IF existingPromise # 0 THEN "shared"
    ELSE "new"

\* a resolver calls the function for a key: cache hit, the promise of the
\* in-flight map (pending, or settled already), or a new promise that is put
\* into the map; the new promise issues the fetch unless it throws first
IdpCall(c, k, limit) ==
    LET how == ServedFrom(idp.cache[k], idp.inflight[k])
        n == idp.issued[k] + 1
    IN /\ idp.callers[c].pc = "idle"
       /\ (how = "new" /\ ~ThrowsBeforeFetch(k)) => idp.issued[k] < MaxFetches
       /\ idp' =
            IF how = "cache"
            THEN [idp EXCEPT !.callers[c] =
                     [pc |-> "idle", key |-> k, promise |-> 0, via |-> "cache",
                      got |-> idp.cache[k]]]
            ELSE IF how = "shared" /\ idp.inflight[k] \in idp.outstanding[k]
            THEN [idp EXCEPT !.callers[c] =
                     [pc |-> "waiting", key |-> k, promise |-> idp.inflight[k],
                      via |-> "shared", got |-> ""]]
            ELSE IF how = "shared"
            THEN [idp EXCEPT !.callers[c] =
                     [pc |-> "idle", key |-> k, promise |-> idp.inflight[k],
                      via |-> "shared", got |-> "rejected"]]
            ELSE IF ThrowsBeforeFetch(k)
            THEN [idp EXCEPT !.inflight[k] = n,
                             !.callers[c] =
                                 [pc |-> "idle", key |-> k, promise |-> n,
                                  via |-> "new", got |-> "rejected"]]
            ELSE [idp EXCEPT !.issued[k] = n,
                             !.sent[k] = limit,
                             !.outstanding[k] = @ \cup {n},
                             !.inflight[k] = n,
                             !.callers[c] =
                                 [pc |-> "waiting", key |-> k, promise |-> n,
                                  via |-> "new", got |-> ""]]
       /\ UNCHANGED <<now, sheets, masterHeader, master, monthly, ops, last, mirror, race, services>>

\* mutant: a failed role lookup is not cached
SettledFailureUncached(k, outcome) ==
    IF outcome = "ok" THEN [got |-> "value", cached |-> "value"]
    ELSE IF k \in RoleKeys THEN [got |-> "empty list", cached |-> None]
    ELSE [got |-> "rejected", cached |-> None]

\* what the promise settles with, and what the value cache receives:
\* getZitadelUserById caches the user and rejects on any failure,
\* listProjectRoles caches the roles and, on any failure, the empty list
Settled(k, outcome) ==
    IF outcome = "ok" THEN [got |-> "value", cached |-> "value"]
    ELSE IF k \in RoleKeys THEN [got |-> "empty list", cached |-> "empty list"]
    ELSE [got |-> "rejected", cached |-> None]

\* the fetch of promise n for key k is answered: cache.set, inflight.delete,
\* and every caller awaiting the promise continues
IdpAnswer(k, n, outcome) ==
    LET r == Settled(k, outcome)
    IN /\ n \in idp.outstanding[k]
       /\ idp' = [idp EXCEPT
              !.cache[k] = IF r.cached # None THEN r.cached ELSE @,
              !.inflight[k] = 0,
              !.outstanding[k] = @ \ {n},
              !.callers = [c \in IdpCallers |->
                              IF @[c].pc = "waiting" /\ @[c].key = k /\ @[c].promise = n
                              THEN [@[c] EXCEPT !.pc = "idle", !.got = r.got]
                              ELSE @[c]]]
       /\ UNCHANGED <<now, sheets, masterHeader, master, monthly, ops, last, mirror, race, services>>

NextIdp ==
    \/ \E c \in IdpCallers, k \in CacheKeys : \E limit \in LimitsOf(k) : IdpCall(c, k, limit)
    \/ \E k \in CacheKeys, n \in 1..MaxFetches, outcome \in FetchOutcomes :
           IdpAnswer(k, n, outcome)

SpecIdp == InitIdp /\ [][NextIdp]_vars

(***************************************************************************)
(* Relational mirror: the Transfer table behind D1Service, a set of rows   *)
(* with transferId as primary key                                          *)
(***************************************************************************)
DbNull == "<null>"
DbDefaultNow == "CURRENT_TIMESTAMP"

\* inputs of createD1Transfer / upsertD1Transfer; requestedAtISO may be empty
D1Inputs ==
    {[transferId |-> id, rideDateISO |-> "2025-03-10", rideTime |-> "14:30",
      pickup |-> "Hotel X", dropoff |-> "Airport", roomOrName |-> Undefined,
      vehicle |-> "Limousine", amountEUR |-> JsNumber("48.5"), payment |-> Undefined,
      customerId |-> "u1", customerName |-> Undefined, driverId |-> d,
      driverName |-> d, state |-> st, requestedAtISO |-> rq] :
        id \in {"tr_a", "tr_b", ""}, d \in {Undefined, "d1"},
        st \in {"pending", "complete"},
        rq \in {"", "2025-03-01T12:00:00.000Z", "2025-03-02T08:00:00.000Z"}}

\* value ?? null
OrNull(v) == IF v = Undefined THEN DbNull ELSE v

\* the create payload both functions build: optional fields as null, the
\* amount only when it is a number, requestedAtISO only when it is non-empty
\* (the column default applies otherwise)
D1CreateData(data) ==
    [transferId |-> data.transferId, rideDateISO |-> data.rideDateISO,
     rideTime |-> data.rideTime, pickup |-> data.pickup, dropoff |-> data.dropoff,
     roomOrName |-> OrNull(data.roomOrName), vehicle |-> OrNull(data.vehicle),
     amountEUR |-> IF IsJsNumber(data.amountEUR) THEN data.amountEUR ELSE DbNull,
     payment |-> OrNull(data.payment), customerId |-> data.customerId,
     customerName |-> OrNull(data.customerName), driverId |-> OrNull(data.driverId),
     driverName |-> OrNull(data.driverName), state |-> data.state,
     requestedAtISO |-> IF data.requestedAtISO # "" THEN data.requestedAtISO
                        ELSE DbDefaultNow]

\* the update payload of upsertD1Transfer applied to the stored row: every
\* field but the key, requestedAtISO only when the input carries one
D1UpdateData(stored, data) ==
    [D1CreateData(data) EXCEPT
        !.requestedAtISO = IF data.requestedAtISO # "" THEN data.requestedAtISO
                           ELSE stored.requestedAtISO]

HasKey(table, transferId) == \E r \in table : r.transferId = transferId
RowOf(table, transferId) == CHOOSE r \in table : r.transferId = transferId

\* mutant: the insert does not check the primary key
PrismaCreateUnchecked(table, row) == [result |-> "ok", table |-> table \cup {row}]

\* prisma.transfer.create: the primary key rejects a second row with the key
PrismaCreate(table, row) ==
    IF HasKey(table, row.transferId)
    THEN [result |-> "Unique constraint failed on transferId", table |-> table]
    ELSE [result |-> "ok", table |-> table \cup {row}]

CreateD1TransferOp(table, data) ==
    IF data.transferId = ""
    THEN [result |-> "transferId is required", table |-> table]
    ELSE PrismaCreate(table, D1CreateData(data))

\* mutant: the update leaves the stored row as it is
UpsertD1TransferKeep(table, data) ==
    IF data.transferId = ""
    THEN [result |-> "transferId is required", table |-> table]
    ELSE IF HasKey(table, data.transferId)
    THEN [result |-> "ok", table |-> table]
    ELSE [result |-> "ok", table |-> table \cup {D1CreateData(data)}]

\* prisma.transfer.upsert where transferId
UpsertD1TransferOp(table, data) ==
    IF data.transferId = ""
    THEN [result |-> "transferId is required", table |-> table]
    ELSE IF HasKey(table, data.transferId)
    THEN LET stored == RowOf(table, data.transferId)
         IN [result |-> "ok",
             table |-> (table \ {stored}) \cup {D1UpdateData(stored, data)}]
    ELSE [result |-> "ok", table |-> table \cup {D1CreateData(data)}]

InitD1 ==
    /\ now = 1
    /\ sheets = {}
    /\ masterHeader = <<>>
    /\ master = <<>>
    /\ monthly = [t \in MonthlyTitles |-> EmptySheet]
    /\ ops = 0
    /\ last = NoRequest
    /\ mirror = {}
    /\ race = <<>>
    /\ idp = <<>>
    /\ ServicesIdle

D1Frame == UNCHANGED <<now, sheets, masterHeader, master, monthly, ops, last, race, idp, services>>

CreateD1Transfer ==
    \E data \in D1Inputs :
        /\ mirror' = CreateD1TransferOp(mirror, data).table
        /\ D1Frame

UpsertD1Transfer ==
    \E data \in D1Inputs :
        /\ mirror' = UpsertD1TransferOp(mirror, data).table
        /\ D1Frame

NextD1 ==
    \/ CreateD1Transfer
    \/ UpsertD1Transfer

SpecD1 == InitD1 /\ [][NextD1]_vars

(***************************************************************************)
(* Push delivery: one sendNotificationToUser request.  A stored            *)
(* subscription carries what its push endpoint will do when it is posted   *)
(* to.                                                                     *)
(***************************************************************************)
MaxSubs == 3

\* the spreadsheet and the ledger bookkeeping, untouched by the other services
ledger == <<now, sheets, masterHeader, master, monthly, ops, last>>

LedgerAtRest ==
    /\ now = 1
    /\ sheets = {}
    /\ masterHeader = <<>>
    /\ master = <<>>
    /\ monthly = [t \in MonthlyTitles |-> EmptySheet]
    /\ ops = 0
    /\ last = NoRequest
    /\ mirror = {}
    /\ race = <<>>
    /\ idp = <<>>

\* VAPID_PRIVATE_KEY of the worker environment
VapidKeys == {"jwk json", "not json", "unset"}

\* getVapidConfig: throws without the key and on a key that does not parse
GetVapidConfig(raw) ==
    IF raw = "unset" THEN "Missing VAPID_PRIVATE_KEY"
    ELSE IF raw = "not json" THEN "VAPID_PRIVATE_KEY must be the JSON JWK"
    ELSE "ok"

\* what happens to one subscription: buildPushHTTPRequest rejects, fetch
\* rejects, or the endpoint answers with a status (the body of an error
\* answer may fail to read)
EndpointOutcomes ==
    {"build error", "network error", "201", "200", "410", "500 body unreadable"}

Endpoint == "https://push.example/s1"

StoredSubscriptions ==
    {[endpoint |-> "", keys |-> TRUE, outcome |-> "201"],
     [endpoint |-> Endpoint, keys |-> FALSE, outcome |-> "201"]}
    \cup {[endpoint |-> Endpoint, keys |-> TRUE, outcome |-> o] : o \in EndpointOutcomes}

SubscriptionLists == UNION {[1..n -> StoredSubscriptions] : n \in 0..MaxSubs}

\* toPushForgeSubscription: null without endpoint or without both keys
ToPushForgeSubscription(sub) ==
    IF sub.endpoint = "" THEN Null
    ELSE IF ~sub.keys THEN Null
    ELSE sub

\* mutant: every 2xx answer counts as delivered
IsDeliveredAny2xx(outcome) == outcome \in {"200", "201"}

\* res.status === 201
IsDelivered(outcome) == outcome = "201"

\* one iteration of the loop: "delivered" or "failed"
SendToSubscription(sub) ==
    LET pfSub == ToPushForgeSubscription(sub)
    IN IF pfSub = Null THEN "failed"
       ELSE IF pfSub.outcome \in {"build error", "network error"} THEN "failed"
       ELSE IF IsDelivered(pfSub.outcome) THEN "delivered"
       ELSE "failed"

RECURSIVE PushLoop(_, _, _)
PushLoop(subs, delivered, failed) ==
    IF subs = <<>> THEN [delivered |-> delivered, failed |-> failed]
    ELSE IF SendToSubscription(Head(subs)) = "delivered"
    THEN PushLoop(Tail(subs), delivered + 1, failed)
    ELSE PushLoop(Tail(subs), delivered, failed + 1)

\* sendPushToSubscriptions: the configuration is read before the loop
SendPushToSubscriptions(raw, subs) ==
    IF GetVapidConfig(raw) # "ok"
    THEN [threw |-> GetVapidConfig(raw), delivered |-> 0, failed |-> 0]
    ELSE [threw |-> ""] @@ PushLoop(subs, 0, 0)

\* sendNotificationToUser: nothing is sent to a user without subscriptions
SendNotificationToUserOp(raw, subs) ==
    IF Len(subs) = 0 THEN [threw |-> "", delivered |-> 0, failed |-> 0]
    ELSE SendPushToSubscriptions(raw, subs)

NotSent == [threw |-> "not sent", delivered |-> 0, failed |-> 0]

InitPush ==
    /\ LedgerAtRest
    /\ push \in [vapid : VapidKeys, subs : SubscriptionLists, result : {NotSent}]
    /\ token = <<>>
    /\ meta = <<>>
    /\ lazy = <<>>

SendNotificationToUser ==
    /\ push.result = NotSent
    /\ push' = [push EXCEPT !.result = SendNotificationToUserOp(push.vapid, push.subs)]
    /\ UNCHANGED <<ledger, mirror, race, idp, token, meta, lazy>>

NextPush == SendNotificationToUser

SpecPush == InitPush /\ [][NextPush]_vars

(***************************************************************************)
(* Spreadsheet access token.  Time is in seconds (Math.floor(Date.now() /  *)
(* 1000)); the cache entry lives in the request context, so every request  *)
(* starts without one.                                                     *)
(***************************************************************************)
MaxTime == 4
MaxExchanges == 3

\* seconds of validity a cached token must have left to be re-used
TokenMargin == 60
\* lifetime assumed when the answer carries no numeric expires_in
DefaultExpiresIn == 3600

\* GOOGLE_SHEETS_CLIENT_EMAIL and GOOGLE_SHEETS_PRIVATE_KEY of the environment
Credentials == {"configured", "missing"}

\* answers of the token endpoint: 200 with expires_in, 200 without a numeric
\* expires_in, an error status
TokenAnswers == {"60", "61", "62", "no expires_in", "400"}

ExpiresIn(answer) ==
    CASE answer = "60" -> 60
      [] answer = "61" -> 61
      [] answer = "62" -> 62
      [] OTHER -> DefaultExpiresIn

\* ctx.get("gsheets_token") of a context that holds no entry
NoEntry == [token |-> 0, exp |-> 0]

NoCall == [from |-> "none", token |-> 0]

\* mutant: a cached token is re-used until the second it expires
CacheUsableUntilExpiry(cached, t) == cached # NoEntry /\ cached.exp > t

\* cached && cached.exp > now + 60
CacheUsable(cached, t) == cached # NoEntry /\ cached.exp > t + TokenMargin

\* googleAccessToken at second t with the request's cache entry; answer is
\* what the token endpoint says if it is asked, n the token it would issue
GoogleAccessTokenOp(env, cached, t, answer, n) ==
    IF env = "missing"
    THEN [from |-> "threw: missing credentials", token |-> 0, cache |-> cached, asked |-> FALSE]
    ELSE IF CacheUsable(cached, t)
    THEN [from |-> "cache", token |-> cached.token, cache |-> cached, asked |-> FALSE]
    ELSE IF answer = "400"
    THEN [from |-> "threw: token error", token |-> 0, cache |-> cached, asked |-> TRUE]
    ELSE [from |-> "exchange", token |-> n,
          cache |-> [token |-> n, exp |-> t + ExpiresIn(answer)], asked |-> TRUE]

InitToken ==
    /\ LedgerAtRest
    /\ push = <<>>
    /\ meta = <<>>
    /\ lazy = <<>>
    /\ token \in [env : Credentials, time : {0}, cache : {NoEntry}, exchanges : {0},
                   last : {NoCall}]

\* a second passes
TokenTick ==
    /\ token.time < MaxTime
    /\ token' = [token EXCEPT !.time = @ + 1]
    /\ UNCHANGED <<ledger, mirror, race, idp, push, meta, lazy>>

\* the next request arrives: a new context, without cache entry
NewRequestContext ==
    /\ token.cache # NoEntry
    /\ token' = [token EXCEPT !.cache = NoEntry, !.last = NoCall]
    /\ UNCHANGED <<ledger, mirror, race, idp, push, meta, lazy>>

GoogleAccessToken ==
    \E answer \in TokenAnswers :
        LET out == GoogleAccessTokenOp(token.env, token.cache, token.time, answer,
                                       token.exchanges + 1)
        IN /\ token.exchanges < MaxExchanges
           /\ token' = [token EXCEPT !.cache = out.cache,
                                     !.exchanges = IF out.asked THEN @ + 1 ELSE @,
                                     !.last = [from |-> out.from, token |-> out.token]]
           /\ UNCHANGED <<ledger, mirror, race, idp, push, meta, lazy>>

NextToken ==
    \/ TokenTick
    \/ NewRequestContext
    \/ GoogleAccessToken

SpecToken == InitToken /\ [][NextToken]_vars

(***************************************************************************)
(* Sheet metadata.  The spreadsheet has tabs; a request keeps the answer   *)
(* of spreadsheets.get in its context.  The calls of a request are taken   *)
(* one after the other, as the handlers await them; other requests add     *)
(* tabs in between.                                                        *)
(***************************************************************************)
TabTitles == {MASTER_TITLE, MonthSheetTitle("u1", "2025-03"), MonthSheetTitle("u1", "2025-04")}

\* ctx.get("sheets_meta") of a context that holds no entry
NoMeta == [known |-> FALSE, titles |-> {}]

\* mutant: the force flag is ignored
SpreadsheetSheetsIgnoreForce(cached, tabs, force) ==
    IF ~cached.known
    THEN [cached |-> [known |-> TRUE, titles |-> tabs], fetched |-> 1]
    ELSE [cached |-> cached, fetched |-> 0]

\* spreadsheetSheets: one spreadsheets.get when nothing is cached or force
SpreadsheetSheets(cached, tabs, force) ==
    IF ~cached.known \/ force
    THEN [cached |-> [known |-> TRUE, titles |-> tabs], fetched |-> 1]
    ELSE [cached |-> cached, fetched |-> 0]

\* ensureSheet: addSheet when the cached metadata lacks the title, then a
\* forced refresh; addSheet is refused when the tab exists already
EnsureSheetOp(cached, tabs, title) ==
    LET first == SpreadsheetSheets(cached, tabs, FALSE)
        exists == title \in first.cached.titles
        again == SpreadsheetSheets(first.cached, tabs \cup {title}, TRUE)
    IN IF exists
       THEN [result |-> "returned", cached |-> first.cached, tabs |-> tabs,
             fetched |-> first.fetched, added |-> 0]
       ELSE IF title \in tabs
       THEN [result |-> "Sheets POST :batchUpdate failed", cached |-> first.cached,
             tabs |-> tabs, fetched |-> first.fetched, added |-> 0]
       ELSE [result |-> "returned", cached |-> again.cached, tabs |-> tabs \cup {title},
             fetched |-> first.fetched + again.fetched, added |-> 1]

\* sheetIdByTitle: looks the title up in the cached metadata
SheetIdByTitleOp(cached, tabs, title) ==
    LET got == SpreadsheetSheets(cached, tabs, FALSE)
    IN [result |-> IF title \in got.cached.titles THEN "sheetId" ELSE "Sheet not found",
        cached |-> got.cached, fetched |-> got.fetched]

InitMeta ==
    /\ LedgerAtRest
    /\ push = <<>>
    /\ token = <<>>
    /\ lazy = <<>>
    /\ meta = [tabs |-> {}, cached |-> NoMeta, ensured |-> {}, fetches |-> 0,
               added |-> 0, last |-> "none"]

EnsureSheetCall ==
    \E title \in TabTitles :
        LET out == EnsureSheetOp(meta.cached, meta.tabs, title)
        IN /\ meta' = [meta EXCEPT !.tabs = out.tabs, !.cached = out.cached,
                          !.ensured = IF out.result = "returned" THEN @ \cup {title} ELSE @,
                          !.fetches = @ + out.fetched, !.added = @ + out.added,
                          !.last = "ensureSheet: " \o out.result]
           /\ UNCHANGED <<ledger, mirror, race, idp, push, token, lazy>>

SheetIdByTitleCall ==
    \E title \in TabTitles :
        LET out == SheetIdByTitleOp(meta.cached, meta.tabs, title)
        IN /\ meta' = [meta EXCEPT !.cached = out.cached, !.fetches = @ + out.fetched,
                          !.last = "sheetIdByTitle: " \o out.result]
           /\ UNCHANGED <<ledger, mirror, race, idp, push, token, lazy>>

\* the request ends and the next one starts with an empty context
NextRequestContext ==
    /\ meta.cached.known
    /\ meta' = [meta EXCEPT !.cached = NoMeta, !.ensured = {}, !.fetches = 0,
                   !.added = 0, !.last = "none"]
    /\ UNCHANGED <<ledger, mirror, race, idp, push, token, lazy>>

\* another request adds a tab
OtherRequestAddsSheet ==
    \E title \in TabTitles \ meta.tabs :
        /\ meta' = [meta EXCEPT !.tabs = @ \cup {title}]
        /\ UNCHANGED <<ledger, mirror, race, idp, push, token, lazy>>

NextMeta ==
    \/ EnsureSheetCall
    \/ SheetIdByTitleCall
    \/ NextRequestContext
    \/ OtherRequestAddsSheet

SpecMeta == InitMeta /\ [][NextMeta]_vars

(***************************************************************************)
(* One user object built by buildLazyZitadelUser: its field resolvers are  *)
(* invoked by the GraphQL executor in any order and any number of times;   *)
(* each lookup is a promise that settles in a later step.                  *)
(***************************************************************************)
MaxLookups == 2

LazyFields ==
    {"grants", "roles", "avatarUrl", "revenue", "transferCount", "monthlyRevenue",
     "monthlyCount", "routes"}

\* the memoised getter behind each field and the lookup it starts
LookupOf(field) ==
    CASE field \in {"grants", "roles"} -> "getUserRoleGrants"
      [] field = "avatarUrl" -> "fetchAvatarUrl"
      [] field = "revenue" -> "getUserRevenue"
      [] field = "transferCount" -> "getUserNumericMetadata(transferCount)"
      [] field = "monthlyRevenue" -> "getUserNumericMetadata(monthlyRevenue)"
      [] field = "monthlyCount" -> "getUserNumericMetadata(monthlyCount)"
      [] field = "routes" -> "getUserRoutes"

Lookups == {LookupOf(f) : f \in LazyFields}

\* mutant: the lookup is started again once the stored promise has settled
StartsLookupUnlessPending(promise) == promise # "pending"

\* if (!xPromise): the lookup is started when no promise is stored
StartsLookup(promise) == promise = "null"

InitLazy ==
    /\ LedgerAtRest
    /\ push = <<>>
    /\ token = <<>>
    /\ meta = <<>>
    /\ lazy = [promise |-> [l \in Lookups |-> "null"],
               started |-> [l \in Lookups |-> 0],
               requested |-> {}]

\* a resolver of the field is invoked
ResolveField(field) ==
    LET l == LookupOf(field)
    IN /\ StartsLookup(lazy.promise[l]) => lazy.started[l] < MaxLookups
       /\ lazy' = IF StartsLookup(lazy.promise[l])
                  THEN [lazy EXCEPT !.promise[l] = "pending", !.started[l] = @ + 1,
                                    !.requested = @ \cup {field}]
                  ELSE [lazy EXCEPT !.requested = @ \cup {field}]
       /\ UNCHANGED <<ledger, mirror, race, idp, push, token, meta>>

\* the lookup is answered: the stored promise resolves or rejects
LookupSettles(l, how) ==
    /\ lazy.promise[l] = "pending"
    /\ lazy' = [lazy EXCEPT !.promise[l] = how]
    /\ UNCHANGED <<ledger, mirror, race, idp, push, token, meta>>

NextLazy ==
    \/ \E field \in LazyFields : ResolveField(field)
    \/ \E l \in Lookups, how \in {"resolved", "rejected"} : LookupSettles(l, how)

SpecLazy == InitLazy /\ [][NextLazy]_vars

(***************************************************************************)
(* Properties                                                              *)
(***************************************************************************)
StateAt(rows, k) == rows[k][ColState]
LedgerIds == {master[k][ColTransferId] : k \in 1..Len(master)}
\* the row a lifecycle handler reads for a transferId
TargetOf(transferId) == GetMasterRowWithIndex(Ensured.rows, transferId)

ListedTransitions ==
    {<<"pending", "confirmed">>, <<"pending", "canceled">>, <<"pending", "complete">>,
     <<"confirmed", "complete">>, <<"pending", "terminated">>,
     <<"confirmed", "terminated">>, <<"canceled", "terminated">>}

\* C1: in every step of a sequential run, rows are never removed and each
\* change of a row's state cell is one of the listed transitions
\* (pending->confirmed, pending->canceled, pending->complete,
\* confirmed->complete, non-complete->terminated).
C1_OnlyListedTransitions ==
    [][/\ Len(master') >= Len(master)
       /\ \A k \in 1..Len(master) :
             StateAt(master', k) # StateAt(master, k)
                => <<StateAt(master, k), StateAt(master', k)>> \in ListedTransitions]_vars

\* C1 witness: a ledger in which one transfer was completed and another one
\* terminated
C1_Witness ==
    \E j, k \in 1..Len(master) :
        StateAt(master, j) = "complete" /\ StateAt(master, k) = "terminated"

\* C2 (as claimed): once a row is complete, canceled or terminated no step
\* changes its state
C2_TerminalNeverChanges ==
    [][\A k \in 1..Len(master) :
          StateAt(master, k) \in {"complete", "canceled", "terminated"}
             => StateAt(master', k) = StateAt(master, k)]_vars

\* C2 (amended): complete and terminated are final; a canceled row keeps its
\* state or becomes terminated, and nothing else
C2_CompleteAndTerminatedFinal ==
    [][\A k \in 1..Len(master) :
          /\ StateAt(master, k) \in {"complete", "terminated"}
                => StateAt(master', k) = StateAt(master, k)
          /\ StateAt(master, k) = "canceled"
                => StateAt(master', k) \in {"canceled", "terminated"}]_vars

\* C2 witness: a completed transfer on which terminateTransfer is refused, next
\* to a transfer that reached terminated
C2_Witness ==
    \E j, k \in 1..Len(master) :
        /\ StateAt(master, j) = "complete"
        /\ TargetOf(master[j][ColTransferId]).rowIdx = j + 1
        /\ TerminateTransferOp(sheets, Ensured.rows, master[j][ColTransferId]).result
              = "Cannot terminate a completed transfer"
        /\ StateAt(master, k) = "terminated"

\* C3: markConfirmed on a transfer whose state is not pending fails with
\* "Only pending transfers can be confirmed" and leaves every data row as it was
C3_ConfirmNonPendingFails ==
    \A id \in LedgerIds :
        LET out == MarkConfirmedOp(sheets, Ensured.rows, id)
        IN TargetOf(id).row.state # "pending"
              => /\ out.result = "Only pending transfers can be confirmed"
                 /\ out.rows = master

\* C3 witness: markConfirmed refused on a completed transfer
C3_Witness ==
    \E id \in LedgerIds :
        /\ TargetOf(id).row.state = "complete"
        /\ MarkConfirmedOp(sheets, Ensured.rows, id).result
              = "Only pending transfers can be confirmed"

\* C4 (as claimed): cancelTransfer by a caller other than the transfer's
\* customerId fails with "Forbidden" and leaves the data rows as they were
C4_ForeignCallerForbidden ==
    \A id \in LedgerIds, caller \in Callers :
        LET out == CancelTransferOp(sheets, Ensured.rows, id, caller)
        IN caller # TargetOf(id).row.customerId
              => out.result = "Forbidden" /\ out.rows = master

\* C5 (as claimed): cancelTransfer by the caller who is the transfer's
\* customerId, on a pending transfer, succeeds and writes canceled
C5_OwnerCancelsPending ==
    \A id \in LedgerIds, caller \in Callers :
        LET g == TargetOf(id)
            out == CancelTransferOp(sheets, Ensured.rows, id, caller)
        IN caller = g.row.customerId /\ g.row.state = "pending"
              => out.result = "ok" /\ StateAt(out.rows, g.rowIdx - 1) = "canceled"

\* C6: createTransfer with valid arguments succeeds, returns a non-empty
\* transferId and appends exactly one row below the existing ones: that row
\* carries the returned id and the given customerId, has state pending and
\* empty driver cells; the rows that existed are unchanged
C6_CreateAppendsPendingRow ==
    \A b \in Bookings, rand \in RandomHex :
        LET out == CreateTransferOp(sheets, Ensured.rows, Clock[now], rand, b[1], b[2], b[3])
            n == Len(master)
        IN /\ out.result = "ok"
           /\ out.transferId # ""
           /\ Len(out.rows) = n + 1
           /\ SubSeq(out.rows, 1, n) = master
           /\ out.rows[n + 1][ColTransferId] = out.transferId
           /\ out.rows[n + 1][ColCustomerId] = b[1]
           /\ out.rows[n + 1][ColRideDateISO] = b[2]
           /\ out.rows[n + 1][ColDriverId] = ""
           /\ out.rows[n + 1][ColDriverName] = ""
           /\ out.rows[n + 1][ColState] = "pending"

\* C6 witness: a second row was appended below a row that has already moved on
C6_Witness ==
    /\ Len(master) = 2
    /\ StateAt(master, 1) = "confirmed"
    /\ StateAt(master, 2) = "pending"
    /\ master[2][ColDriverId] = ""
    /\ master[1][ColCustomerId] # master[2][ColCustomerId]

\* C7 (as claimed): no two data rows carry the same transferId
C7_TransferIdsUnique ==
    \A j, k \in 1..Len(master) :
        j # k => master[j][ColTransferId] # master[k][ColTransferId]

\* C8: assignDriver on a transferId of the ledger with an existing driver
\* succeeds whatever the state, and a successful assignDriver changes nothing
\* but the driverId and driverName cells of the row it looked up
C8_AssignDriverFrame ==
    \A id \in TransferIdInputs, d \in DriverInputs :
        LET out == AssignDriverOp(sheets, Ensured.rows, id, d)
            k == TargetOf(id).rowIdx - 1
        IN /\ (id \in LedgerIds /\ d \in ZitadelUsers) => out.result = "ok"
           /\ out.result = "ok"
                 => /\ Len(out.rows) = Len(master)
                    /\ k \in 1..Len(master)
                    /\ master[k][ColTransferId] = id
                    /\ out.rows[k][ColDriverId] = d
                    /\ out.rows[k][ColDriverName] = OrEmpty(TryGetUserDisplayName(d))
                    /\ \A j \in 1..Len(master) :
                          /\ Len(out.rows[j]) = Len(master[j])
                          /\ \A c \in 1..Len(master[j]) :
                                (j # k \/ c \notin {ColDriverId, ColDriverName})
                                   => out.rows[j][c] = master[j][c]

\* C8 witness: a driver was assigned to one of two rows, and the row that
\* carries the driver is no longer pending
C8_Witness ==
    /\ Len(master) = 2
    /\ \E k \in 1..2 :
          /\ master[k][ColDriverId] = "d1"
          /\ StateAt(master, k) # "pending"
          /\ master[3 - k][ColDriverId] = ""

\* position of the first occurrence of a call in a call sequence, 0 if none
IndexOfCall(calls, c) == FirstIndex(calls, c, 1, Len(calls))
StatementCalls == {"monthly.header", "monthly.insertRow", "monthly.row"}
KeyCount(rows, transferId) == Cardinality({k \in 1..Len(rows) : rows[k].key = transferId})

FailedWithoutChange(result, rows, M) == result # "ok" => rows = master /\ M = monthly

\* what the four state-changing handlers do with one transferId: a failure
\* changes nothing, and an id that is not in the ledger is reported as such
GuardedHandlersFailClean(id) ==
    LET confirm == MarkConfirmedOp(sheets, Ensured.rows, id)
        terminate == TerminateTransferOp(sheets, Ensured.rows, id)
        complete == MarkCompletedOp(sheets, Ensured.rows, monthly, id)
    IN /\ FailedWithoutChange(confirm.result, confirm.rows, monthly)
       /\ FailedWithoutChange(terminate.result, terminate.rows, monthly)
       /\ FailedWithoutChange(complete.result, complete.rows, complete.monthly)
       /\ \A caller \in Callers :
             LET cancel == CancelTransferOp(sheets, Ensured.rows, id, caller)
             IN /\ FailedWithoutChange(cancel.result, cancel.rows, monthly)
                /\ id \notin LedgerIds => cancel.result = "transferId not found"
       /\ id \notin LedgerIds
             => /\ confirm.result = "transferId not found"
                /\ terminate.result = "transferId not found"
                /\ complete.result = "transferId not found"

\* C10 (as claimed): a lifecycle handler that fails changes no data row and no
\* statement, and with a transferId that is not in the ledger every handler
\* fails with "transferId not found"
C10_FailureChangesNothing ==
    \A id \in TransferIdInputs :
        /\ GuardedHandlersFailClean(id)
        /\ \A d \in DriverInputs :
              LET assign == AssignDriverOp(sheets, Ensured.rows, id, d)
              IN /\ FailedWithoutChange(assign.result, assign.rows, monthly)
                 /\ id \notin LedgerIds => assign.result = "transferId not found"

\* C10 (amended): as above, except that assignDriver reports a missing
\* transferId only when its driver argument is non-empty and names an existing
\* user; otherwise it fails on the driver, also without any change
C10_FailureChangesNothingDriverFirst ==
    \A id \in TransferIdInputs :
        /\ GuardedHandlersFailClean(id)
        /\ \A d \in DriverInputs :
              LET assign == AssignDriverOp(sheets, Ensured.rows, id, d)
              IN /\ FailedWithoutChange(assign.result, assign.rows, monthly)
                 /\ (id \notin LedgerIds /\ d \in ZitadelUsers)
                       => assign.result = "transferId not found"
                 /\ d \notin ZitadelUsers
                       => assign.result \in {"driverUserId required", "Driver user not found"}

\* C10 witness: with a statement row present, markCompleted is refused on the
\* completed transfer and markConfirmed fails on a transferId that is not there
C10_Witness ==
    \E id \in LedgerIds :
        /\ TargetOf(id).row.state = "complete"
        /\ \E t \in MonthlyTitles : Len(monthly[t].rows) >= 1
        /\ MarkCompletedOp(sheets, Ensured.rows, monthly, id).result
              = "Only pending or confirmed transfers can be completed"
        /\ MarkConfirmedOp(sheets, Ensured.rows, AbsentId).result = "transferId not found"

(***************************************************************************)
(* Master header migration                                                 *)
(***************************************************************************)
Cell(row, i) == IF i <= Len(row) THEN row[i] ELSE ""
HeaderIsCanonical(header) == HeaderRange(header) = MASTER_HEADERS
IsLegacyHeader(header) ==
    /\ HeaderCell(header, 1) = "userId"
    /\ HeaderCell(header, 11) = "driver"
    /\ HeaderCell(header, 12) = "state"
    /\ \A i \in 1..Len(header) : header[i] # "driverName"

\* C11: ensureMaster is idempotent on the header: a second run leaves the header
\* of the first run as it is, and a run on a sheet whose header is already the
\* canonical 15 columns changes neither the header nor any column of a data row.
C11_MigrationIdempotent ==
    LET e1 == EnsureMaster(masterHeader, master)
        e2 == EnsureMaster(e1.header, e1.rows)
    IN /\ e2.header = e1.header
       /\ HeaderIsCanonical(masterHeader) => e1.header = masterHeader /\ e1.rows = master

\* ensureMaster has run at least twice on a sheet whose columns it had shifted
C11_Witness ==
    /\ ops >= 2
    /\ masterHeader = MASTER_HEADERS \o <<"notes">>
    /\ \E k \in 1..Len(master) : master[k][ColTransferId] = "tr_legacy" /\ Len(master[k]) = 16

\* C12: on a master sheet in the legacy layout ensureMaster yields the canonical
\* 15-column header and moves, in every data row, the state value under the
\* state header and the requestedAtISO value under the requestedAtISO header.
C12_LegacyMigrated ==
    IsLegacyHeader(masterHeader) =>
        LET e == EnsureMaster(masterHeader, master)
        IN /\ HeaderIsCanonical(e.header)
           /\ Len(e.rows) = Len(master)
           /\ \A k \in 1..Len(master) :
                  /\ Cell(e.rows[k], ColState) = Cell(master[k], 13)
                  /\ Cell(e.rows[k], ColState + 1) = Cell(master[k], 14)

(***************************************************************************)
(* Row codec                                                               *)
(***************************************************************************)
\* Transfer records: the required fields fixed, every optional field either
\* absent or present, the amount absent, 0 or positive
TransferRecords ==
    {[transferId |-> "tr_x", customerId |-> "u1", customerName |-> cn,
      rideDateISO |-> "2025-03-10", rideTime |-> "14:30", pickup |-> "Hotel X",
      dropoff |-> "Airport", roomOrName |-> rn, vehicle |-> "Limousine",
      amountEUR |-> am, payment |-> pay, driverId |-> d, driverName |-> d,
      state |-> "pending", requestedAtISO |-> RequestedAtISO(Clock[1])] :
        cn \in {Undefined, "Hans Huber"}, rn \in {Undefined, "Zimmer 108"},
        am \in {Undefined, JsNumber("0"), JsNumber("48.5")},
        pay \in {Undefined, "Lieferschein"}, d \in {Undefined, "d1"}}

\* C13: decoding the row a Transfer record encodes to gives the record back,
\* absent optional fields as undefined and present values (amountEUR = 0
\* included) unchanged; for the records above and the records createTransfer builds.
C13_RoundTrip ==
    \A t \in TransferRecords \cup
             {NewTransferRow(Clock[now], r, b[1], b[2], b[3]) : r \in RandomHex, b \in Bookings} :
        RowToTransfer(TransferToMasterRow(t)) = t

(***************************************************************************)
(* Monthly statements: resync and the post-processing web app              *)
(***************************************************************************)
\* C14: syncMonthlySheet after markCompleted gives the same statement (header
\* block, number of rows, keys and numbering) whether it starts from the sheet
\* markCompleted's incremental append has written to or from the sheet as it
\* was before that append.
C14_ResyncSameAfterAppend ==
    \A id \in LedgerIds :
        LET rows == Ensured.rows
            done == MarkCompletedOp(sheets, rows, monthly, id)
            row == GetMasterRowWithIndex(rows, id).row
            yyyymm == MonthKeyFromISO(row.rideDateISO)
        IN done.result = "ok" =>
               SyncMonthlySheetOp(done.rows, done.monthly[done.title], row.customerId, yyyymm)
                 = SyncMonthlySheetOp(done.rows, monthly[done.title], row.customerId, yyyymm)

\* create, markCompleted, then the resync of the one statement that exists:
\* the row it lists was there before the resync
C14_Witness ==
    /\ ops = 3
    /\ last.op = "syncMonthlySheet" /\ ~last.repaired
    /\ \E t \in MonthlyTitles :
           /\ sheets = {MASTER_TITLE, t}
           /\ Len(monthly[t].rows) = 1
           /\ monthly[t].rows[1].key \in LedgerIds

\* ledger rows of a customer and month that are complete
CompleteRowsOf(userId, yyyymm) ==
    {k \in 1..Len(master) :
        /\ Cell(master[k], ColCustomerId) = userId
        /\ Cell(master[k], ColState) = "complete"
        /\ MonthKeyFromISO(Cell(master[k], ColRideDateISO)) = yyyymm}

StatementMatchesLedger(userId, yyyymm) ==
    LET st == monthly[MonthSheetTitle(userId, yyyymm)].rows
        complete == CompleteRowsOf(userId, yyyymm)
    IN /\ {st[i].key : i \in 1..Len(st)} = {master[k][ColTransferId] : k \in complete}
       /\ Len(st) = Cardinality(complete)
       /\ \A i, j \in 1..Len(st) : st[i].key = st[j].key => i = j
       /\ \A i \in 1..Len(st) : st[i].nr = i

\* C15: every successful syncMonthlySheet(customer, month), whatever the sheet
\* held before, leaves the statement's key column listing exactly the ids of
\* the complete ledger rows of that customer and month, each once, numbered 1..n.
C15_ResyncListsCompleteRows ==
    [][last'.op = "syncMonthlySheet" =>
          \A userId \in CustomerIds, yyyymm \in Months, hook \in HookOutcomes :
              SyncMonthlySheetFor(userId, yyyymm, hook)
                  => StatementMatchesLedger(userId, yyyymm)']_vars

\* a resync has just listed a complete row that the statement did not hold:
\* the row of a markCompleted that failed after its ledger write
C15_Witness ==
    /\ last.op = "syncMonthlySheet" /\ last.repaired
    /\ \E userId \in CustomerIds, yyyymm \in Months :
           /\ CompleteRowsOf(userId, yyyymm) # {}
           /\ StatementMatchesLedger(userId, yyyymm)

\* C20: whatever the web app answers (error status, rejected fetch, no URL
\* configured), markCompleted and syncMonthlySheet return as they do when it
\* answers 2xx, with the same ledger rows and statements written.
C20_HookFailureIsIgnored ==
    /\ \A id \in TransferIdInputs, hook \in HookOutcomes :
           MarkCompletedRequest(sheets, Ensured.rows, monthly, id, hook)
             = MarkCompletedOp(sheets, Ensured.rows, monthly, id)
    /\ \A userId \in CustomerIds, yyyymm \in Months, hook \in HookOutcomes :
           LET sheet == monthly[MonthSheetTitle(userId, yyyymm)]
           IN SyncMonthlySheetRequest(Ensured.rows, sheet, userId, yyyymm, hook)
                = [result |-> "ok",
                   sheet |-> SyncMonthlySheetOp(Ensured.rows, sheet, userId, yyyymm)]

\* markCompleted has returned normally although the web app call failed, and
\* the statement row it wrote is there
C20_Witness ==
    /\ last.op = "markCompleted"
    /\ last.hook \in {"http 500", "network error"}
    /\ \E t \in MonthlyTitles, k \in 1..Len(master) :
           /\ master[k][ColState] = "complete"
           /\ KeyCount(monthly[t].rows, master[k][ColTransferId]) = 1

(***************************************************************************)
(* Concurrent markCompleted                                                *)
(***************************************************************************)
RaceKeyCount(transferId) ==
    LET t == CHOOSE t \in MonthlyTitles :
                 \A u \in MonthlyTitles : KeyCount(monthly[u].rows, transferId)
                                            <= KeyCount(monthly[t].rows, transferId)
    IN KeyCount(monthly[t].rows, transferId)

\* C16: the statement holds two rows for one transferId only when both calls
\* passed the state guard; a call that starts after the other has returned
\* fails the guard, and one row exists for the transferId.
C16_DoubleAppendNeedsOverlap ==
    \A c, d \in Calls :
        LET id == race[c].transferId
        IN /\ RaceKeyCount(id) <= 2
           /\ RaceKeyCount(id) = 2 => race[c].pc # "start" /\ race[c].result \in {"", "ok"}
           /\ (c # d /\ race[c].pc = "done" /\ race[c].result = "ok" /\ race[d].pc = "start")
                  => /\ MarkCompletedOp(sheets, master, monthly, id).result
                          = "Only pending or confirmed transfers can be completed"
                     /\ RaceKeyCount(id) = 1

\* both calls have passed the guard and returned, and the statement holds two
\* rows with the transferId as key
C16_Witness ==
    /\ \A c \in Calls : race[c].pc = "done" /\ race[c].result = "ok"
    /\ RaceKeyCount(race[1].transferId) = 2

(***************************************************************************)
(* Identity lookups: in-flight deduplication                               *)
(***************************************************************************)
\* C17: per cache key at most one fetch is outstanding; a caller that arrives
\* while one is outstanding is given its promise and no fetch is issued; once
\* a value is cached no fetch is issued for the key and callers get the value.
C17_OneFetchPerKey ==
    [][\A k \in CacheKeys :
          /\ Cardinality(idp'.outstanding[k]) <= 1
          /\ (idp.outstanding[k] # {} \/ idp.cache[k] # None)
                 => idp'.issued[k] = idp.issued[k]
          /\ \A c \in IdpCallers :
                 (idp'.callers[c] # idp.callers[c] /\ idp.callers[c].pc = "idle"
                  /\ idp'.callers[c].key = k)
                     => /\ idp.cache[k] # None
                            => idp'.callers[c].via = "cache" /\ idp'.callers[c].got = idp.cache[k]
                        /\ (idp.cache[k] = None /\ idp.outstanding[k] # {})
                            => /\ idp'.callers[c].via = "shared"
                               /\ idp'.callers[c].promise \in idp.outstanding[k]]_vars

\* one resolver waits on the promise another resolver's call has created,
\* and a later call for a key that had been answered was served from the cache
C17_Witness ==
    \E c, d \in IdpCallers, k \in CacheKeys :
        /\ c # d
        /\ idp.callers[c].pc = "waiting" /\ idp.callers[c].via = "shared"
        /\ idp.callers[c].key = k /\ idp.outstanding[k] = {idp.callers[c].promise}
        /\ idp.callers[d].via = "cache" /\ idp.callers[d].got = "value"
        /\ idp.issued[idp.callers[d].key] = 1

(***************************************************************************)
(* Relational mirror                                                       *)
(***************************************************************************)
\* the ledger row of a transferId as the mirror would hold it
MirrorsLedgerRow(r, row) ==
    /\ r.transferId = row[ColTransferId]
    /\ r.customerId = row[ColCustomerId]
    /\ r.state = row[ColState]
    /\ r.driverId = (IF row[ColDriverId] = "" THEN DbNull ELSE row[ColDriverId])

\* C18: once the lifecycle operations have stopped (no request can run any
\* more), the mirror holds for every transferId of the ledger a record equal
\* to the ledger row.
C18_MirrorCatchesUp ==
    (ops = MaxOps /\ now = Len(Clock)) =>
        \A k \in 1..Len(master) : \E r \in mirror : MirrorsLedgerRow(r, master[k])

OneRowPerKey(table) == \A r, q \in table : r.transferId = q.transferId => r = q

D1CreateFailsOnExistingKey(data) ==
    HasKey(mirror, data.transferId) =>
        /\ CreateD1TransferOp(mirror, data).result # "ok"
        /\ CreateD1TransferOp(mirror, data).table = mirror

\* C19 as stated: createD1Transfer fails on an existing key and changes nothing;
\* upsertD1Transfer succeeds on an absent and on a present key and leaves the
\* row holding every field of the input; the key stays unique.
C19_CreateFailsUpsertOverwritesAll ==
    /\ OneRowPerKey(mirror)
    /\ \A data \in D1Inputs :
           data.transferId # "" =>
               LET up == UpsertD1TransferOp(mirror, data)
               IN /\ D1CreateFailsOnExistingKey(data)
                  /\ OneRowPerKey(CreateD1TransferOp(mirror, data).table)
                  /\ up.result = "ok" /\ OneRowPerKey(up.table)
                  /\ RowOf(up.table, data.transferId) = D1CreateData(data)

\* C19, with the field upsertD1Transfer does not always overwrite: a present
\* row receives every field of the input except that requestedAtISO is kept
\* when the input carries none.
C19_CreateFailsUpsertOverwrites ==
    /\ OneRowPerKey(mirror)
    /\ \A data \in D1Inputs :
           data.transferId # "" =>
               LET up == UpsertD1TransferOp(mirror, data)
                   new == RowOf(up.table, data.transferId)
               IN /\ D1CreateFailsOnExistingKey(data)
                  /\ OneRowPerKey(CreateD1TransferOp(mirror, data).table)
                  /\ up.result = "ok" /\ OneRowPerKey(up.table)
                  /\ [new EXCEPT !.requestedAtISO = ""]
                        = [D1CreateData(data) EXCEPT !.requestedAtISO = ""]
                  /\ new.requestedAtISO =
                        (IF data.requestedAtISO # "" THEN data.requestedAtISO
                         ELSE IF HasKey(mirror, data.transferId)
                         THEN RowOf(mirror, data.transferId).requestedAtISO
                         ELSE DbDefaultNow)

\* the table holds a row that an upsert has overwritten while keeping the
\* requestedAtISO an earlier call stored, next to a second key
C19_Witness ==
    /\ HasKey(mirror, "tr_a") /\ HasKey(mirror, "tr_b")
    /\ RowOf(mirror, "tr_a").state = "complete"
    /\ RowOf(mirror, "tr_a").driverId = "d1"
    /\ RowOf(mirror, "tr_a").requestedAtISO = DbDefaultNow
    /\ RowOf(mirror, "tr_b").requestedAtISO = "2025-03-01T12:00:00.000Z"

(***************************************************************************)
(* Order of the statement rows                                             *)
(***************************************************************************)
\* ride date and time of the input universe, in chronological order
Chronological ==
    <<<<"2025-03-10", "09:15">>, <<"2025-03-10", "14:30">>, <<"2025-04-02", "14:30">>>>

\* position in time of the ride a statement row looks up by its hidden key
RideRank(key) ==
    LET t == GetMasterRowWithIndex(master, key).row
    IN CHOOSE i \in 1..Len(Chronological) : Chronological[i] = <<t.rideDateISO, t.rideTime>>

\* data rows in ascending date, then time, and numbered 1..n
SortedAndNumbered(rows) ==
    /\ \A i, j \in 1..Len(rows) :
           (i < j /\ rows[i].key # "" /\ rows[j].key # "")
               => RideRank(rows[i].key) <= RideRank(rows[j].key)
    /\ \A i \in 1..Len(rows) : rows[i].key # "" => rows[i].nr = i

\* C21: after markCompleted or syncMonthlySheet has written statement rows
\* while no post-processing hook is configured, the data rows of every
\* statement are sorted by ride date, then ride time, and numbered 1..n.
C21_SortedWithoutHook ==
    (last.op \in {"markCompleted", "syncMonthlySheet"} /\ last.hook = "unset")
        => \A title \in MonthlyTitles : SortedAndNumbered(monthly[title].rows)

(***************************************************************************)
(* Push delivery                                                           *)
(***************************************************************************)
Answered201(subs) ==
    {i \in 1..Len(subs) :
        subs[i].endpoint # "" /\ subs[i].keys /\ subs[i].outcome = "201"}

PushCountsAreExact ==
    /\ push.result.threw = ""
    /\ push.result.delivered + push.result.failed = Len(push.subs)
    /\ push.result.delivered = Cardinality(Answered201(push.subs))

IsTokenCall ==
    /\ token.env = "configured"
    /\ token'.time = token.time
    /\ token'.last # NoCall
    /\ token' # token

C24_EnsuredSheetIsFound ==
    /\ meta.ensured # {} => (meta.cached.known /\ meta.ensured \subseteq meta.cached.titles)
    /\ \A title \in meta.ensured :
           SheetIdByTitleOp(meta.cached, meta.tabs, title).result = "sheetId"
    /\ meta.fetches <= 1 + meta.added
    /\ \A title \in TabTitles :
           LET out == SheetIdByTitleOp(meta.cached, meta.tabs, title)
           IN meta.fetches + out.fetched <= 1 + meta.added

\* one request has added two sheets, another request a third, and the last
\* lookup of the request found its sheet
C24_Witness ==
    /\ Cardinality(meta.ensured) = 2
    /\ meta.added = 2
    /\ meta.fetches = 3
    /\ meta.tabs = TabTitles
    /\ meta.last = "sheetIdByTitle: sheetId"

(***************************************************************************)
(* Identity lookups: project roles, in-flight map                          *)
(***************************************************************************)
\* C25: within one request listProjectRoles issues at most one outbound call
\* per cache key, whether the call succeeds or fails: once the call is
\* answered the cache holds the roles or, after a failure, the empty list,
\* and every later call for the key, whatever its limit, returns the cached
\* list without an outbound call.
C25_OneRoleCallPerKey ==
    [][\A k \in RoleKeys :
          /\ idp'.issued[k] <= 1
          /\ (idp'.issued[k] = 1 /\ idp'.outstanding[k] = {})
                 => idp'.cache[k] \in {"value", "empty list"}
          /\ \A c \in IdpCallers, limit \in LimitsOf(k) :
                 (idp.cache[k] # None /\ IdpCall(c, k, limit))
                     => /\ idp'.issued[k] = idp.issued[k]
                        /\ idp'.sent[k] = idp.sent[k]
                        /\ idp'.callers[c].pc = "idle"
                        /\ idp'.callers[c].got = idp.cache[k]]_vars

\* the role lookup of the request failed, was made with limit 5, and a later
\* call got the cached empty list
C25_Witness ==
    \E k \in RoleKeys, c \in IdpCallers :
        /\ idp.issued[k] = 1 /\ idp.outstanding[k] = {} /\ idp.sent[k] = 5
        /\ idp.cache[k] = "empty list"
        /\ idp.callers[c].key = k /\ idp.callers[c].via = "cache"
        /\ idp.callers[c].got = "empty list"

\* C29: whenever no lookup for a key is outstanding, the in-flight map has no
\* entry for the key, whether the lookup succeeded, failed asynchronously or
\* failed before its first suspension point.
C29_NoStaleInflightEntry ==
    \A k \in CacheKeys : idp.outstanding[k] = {} => idp.inflight[k] = 0

(***************************************************************************)
(* Interleaved lifecycle calls                                             *)
(***************************************************************************)
\* C26: also when two lifecycle calls on the same transferId interleave,
\* every change of the transfer's state cell is a transition of the
\* transition table, and a state cell that holds complete is not written
\* terminated, confirmed or canceled.
C26_InterleavedTransitionsListed ==
    [][\A k \in 1..Len(master) :
          /\ StateAt(master', k) # StateAt(master, k)
                => <<StateAt(master, k), StateAt(master', k)>> \in ListedTransitions
          /\ StateAt(master, k) = "complete" => StateAt(master', k) = "complete"]_vars

\* C27: when markCompleted has run concurrently for two different transfers
\* of the same customer and month and both calls have returned successfully,
\* the statement holds a row for each of the two transferIds.
C27_BothRowsKept ==
    (/\ race[1].transferId # race[2].transferId
     /\ \A c \in Calls : race[c].pc = "done" /\ race[c].result = "ok")
        => \A c \in Calls : KeyCount(monthly[RaceTitle(c)].rows, race[c].transferId) >= 1

(***************************************************************************)
(* Append-only ledger                                                      *)
(***************************************************************************)
\* the step is one of the four handlers that write the state cell
StateWritingStep ==
    \/ MarkConfirmed
    \/ CancelTransfer
    \/ TerminateTransfer
    \/ MarkCompleted
    \/ MarkCompletedSheetsError

\* C28: no step removes or reorders a data row; the transferId, customerId
\* and requestedAtISO cells of an existing row never change; markConfirmed,
\* cancelTransfer, terminateTransfer and markCompleted change no cell of the
\* ledger but the state cell of one row.
C28_LedgerAppendOnly ==
    [][/\ Len(master') >= Len(master)
       /\ \A k \in 1..Len(master) :
             /\ Cell(master'[k], ColTransferId) = Cell(master[k], ColTransferId)
             /\ Cell(master'[k], ColCustomerId) = Cell(master[k], ColCustomerId)
             /\ Cell(master'[k], ColRequestedAtISO) = Cell(master[k], ColRequestedAtISO)
       /\ (master' # master /\ StateWritingStep)
             => /\ Len(master') = Len(master)
                /\ \E k \in 1..Len(master) :
                      \A j \in 1..Len(master), c \in 1..Len(MASTER_HEADERS) + 1 :
                          (j # k \/ c # ColState)
                              => Cell(master'[j], c) = Cell(master[j], c)]_vars

\* two transfers, one canceled and one confirmed by the handlers, both still
\* carrying the creation timestamp they were appended with
C28_Witness ==
    /\ Len(master) = 2
    /\ \E k \in 1..2 :
          StateAt(master, k) = "canceled" /\ StateAt(master, 3 - k) = "confirmed"
    /\ \A k \in 1..2 :
          Cell(master[k], ColRequestedAtISO) \in {RequestedAtISO(Clock[i]) : i \in 1..Len(Clock)}

(***************************************************************************)
(* Lazy user fields                                                        *)
(***************************************************************************)
\* C30: for one user object every lookup behind a lazy field is started at
\* most once, whatever fields are resolved, how often, in what order and
\* whether earlier lookups are still pending; roles and grants share the
\* grants lookup; a lookup whose fields were never requested is not started.
C30_LazyLookupOnce ==
    /\ \A l \in Lookups :
          /\ lazy.started[l] <= 1
          /\ lazy.started[l] = 1 <=> (\E f \in lazy.requested : LookupOf(f) = l)
    /\ LookupOf("roles") = LookupOf("grants")
    /\ {"roles", "grants"} \subseteq lazy.requested => lazy.started["getUserRoleGrants"] = 1

\* roles and grants were both resolved, the second while the grants lookup
\* was pending or after it was rejected; avatarUrl was resolved and routes
\* never requested
C30_Witness ==
    /\ {"roles", "grants", "avatarUrl"} \subseteq lazy.requested
    /\ "routes" \notin lazy.requested
    /\ lazy.started["getUserRoleGrants"] = 1
    /\ lazy.promise["getUserRoleGrants"] = "rejected"
    /\ lazy.promise["fetchAvatarUrl"] = "pending"
    /\ lazy.started["getUserRoutes"] = 0

====
